---------------------------- MODULE Spec2Model ----------------------------
(***************************************************************************)
(* A model of the intent-routing and action-dispatch core of the           *)
(* agenticWorkFlow repository: the Generative-Text Client                  *)
(* (callGeminiWithRetry), the repository dispatcher (runGitHubAgent over   *)
(* githubOAuthAgent's token store and provider calls) and the market-data  *)
(* dispatcher (runCryptoAgent).                                            *)
(*                                                                         *)
(* Every await of the source is a step boundary: what the code does        *)
(* between two awaits is one atomic action (single-threaded event loop).   *)
(* A string the code only searches with includes() is modelled as a       *)
(* record [text, has]: its text and the set of the searched-for fragments  *)
(* it contains.                                                            *)
(***************************************************************************)
EXTENDS Integers, Sequences, FiniteSets, TLC

VARIABLES
    \* one call of callGeminiWithRetry
    gPc,        \* "idle" | "call" | "wait" | "ok" | "thrown" | "exhausted"
    gModel,     \* index into MODELS of the model being tried
    gAttempt,   \* attempt number on that model, from 1
    gLog,       \* the generateContent calls made so far: [model, attempt, res]
    gWaits,     \* the delays (ms) waited so far
    gRet,       \* the value returned (ok) or the error thrown
    \* githubOAuthAgent
    tokenStore, \* Map<string, TokenData>: userId -> its token, or Undefined
    lastMut,    \* history: the latest mutation of each userId's entry
    \* the dispatch calls (runGitHubAgent, runCryptoAgent)
    pc,         \* per call: "idle", the await it is suspended at, or how it settled
    d,          \* per call: its local state and history
    out,        \* per call: the result it settled with
    \* the CLI loop around parseUserIntent
    iPc,        \* "prompt" | "parse" | "returned"
    iIn,        \* userInput, and the userPrompt handed to parseUserIntent
    iOut,       \* the ParsedIntent the call settled with, and the path it took
    iRx,        \* the RegExp objects of the latest fallback
    iHist,      \* history: the first intent the catch block returned for this
                \* userPrompt, and how many it returned (counted up to 2)
    iSent,      \* where the CLI routed the intent, and the query it handed on
    \* one call of getInstagramData
    sPc,        \* "idle" | "actor" | "items" | "page" | "resolved" | "rejected"
    sUrl,       \* postUrl
    sApify,     \* what getInstagramDataApify returned
    sOut,       \* what getInstagramData settled with
    sLog,       \* history: the remote calls made so far
    \* one call of callGemini, given the same answers as callGeminiWithRetry
    cPc,        \* "idle" | "call" | "ok" | "failed"
    cModel,     \* index into MODEL_CHAIN of the model being tried
    cLog,       \* the generateContent calls made so far
    cRet,       \* the text returned, or the error thrown
    \* the OAuth callbacks and the interactive authorization wait
    oTable,     \* tokenStore of the process that serves the callbacks
    oFlow,      \* startOAuthFlow: its promise, server and timer
    oCb,        \* per callback request: where its handler is
    oLog,       \* history: the writes of records to oTable
    \* one call of runAnalysisWorkflow
    wPc,        \* "idle" | "scraping" | "analysis" | "resolved"
    wIn,        \* postUrl, and mode and userQuery after their defaults
    wData,      \* scrapedData
    wPrompt,    \* the prompt handed to callGeminiWithRetry
    wGen,       \* what callGeminiWithRetry settled with
    wOut,       \* the WorkflowResult returned
    wLog        \* history: the remote calls awaited so far

gvars == <<gPc, gModel, gAttempt, gLog, gWaits, gRet>>
dvars == <<tokenStore, lastMut, pc, d, out>>
ivars == <<iPc, iIn, iOut, iRx, iHist, iSent>>
svars == <<sPc, sUrl, sApify, sOut, sLog>>
cvars == <<cPc, cModel, cLog, cRet>>
ovars == <<oTable, oFlow, oCb, oLog>>
wvars == <<wPc, wIn, wData, wPrompt, wGen, wOut, wLog>>
vars == <<gvars, dvars, ivars, svars, cvars, ovars, wvars>>

Undefined == "undefined"

\* errMsg.includes(frag)
Includes(msg, frag) == frag \in msg.has

Msg(text, frags) == [text |-> text, has |-> frags]

(***************************************************************************)
(* Generative-Text Client: callGeminiWithRetry                             *)
(***************************************************************************)
MODELS == <<"gemini-2.5-flash", "gemini-2.5-flash-lite", "gemini-3-flash">>
MAX_RETRIES == 3
BASE_DELAY_MS == 5000

\* What one generateContent call can answer: a text, or an error.
GenTexts == {"textA", "textB"}
GenErrors ==
    { Msg("[429 Too Many Requests] rate limited", {"429", "Too Many Requests"}),
      Msg("You exceeded your current quota", {"quota"}),
      Msg("[500 Internal Server Error]", {}),
      Msg("fetch failed", {}) }

ExhaustedError ==
    Msg("All Gemini models exhausted their quota. Please wait or upgrade your plan.",
        {"quota"})

is429Lenient(errMsg) == TRUE

is429(errMsg) ==
    \/ Includes(errMsg, "429")
    \/ Includes(errMsg, "Too Many Requests")
    \/ Includes(errMsg, "quota")

RetryDelayFlat(attempt) == BASE_DELAY_MS

\* delay = BASE_DELAY_MS * attempt
RetryDelay(attempt) == BASE_DELAY_MS * attempt

RetryCeilingShort(attempt) == attempt < MAX_RETRIES - 1

\* attempt < MAX_RETRIES: another try of the same model follows
RetryCeiling(attempt) == attempt < MAX_RETRIES

HasNextModelSkipLast(model) == model + 1 < Len(MODELS)

\* for (const modelName of MODELS): another model follows in the chain
HasNextModel(model) == model < Len(MODELS)

GemIdle ==
    /\ gPc = "idle"
    /\ gModel = 1
    /\ gAttempt = 1
    /\ gLog = <<>>
    /\ gWaits = <<>>
    /\ gRet = Undefined

\* the call is made: the first model, the first attempt
GemStart ==
    /\ gPc = "idle"
    /\ gPc' = "call"
    /\ UNCHANGED <<gModel, gAttempt, gLog, gWaits, gRet>>
    /\ UNCHANGED <<dvars, ivars, svars, cvars, ovars, wvars>>

\* generateContent resolves: return { success, text, model }
GemSuccess(text) ==
    /\ gPc = "call"
    /\ gLog' = Append(gLog, [model |-> MODELS[gModel], attempt |-> gAttempt, ok |-> TRUE,
                              text |-> text, err |-> Msg("", {})])
    /\ gPc' = "ok"
    /\ gRet' = [success |-> TRUE, text |-> text, model |-> MODELS[gModel]]
    /\ UNCHANGED <<gModel, gAttempt, gWaits>>
    /\ UNCHANGED <<dvars, ivars, svars, cvars, ovars, wvars>>

\* generateContent rejects with err: the catch block
GemFailure(err) ==
    /\ gPc = "call"
    /\ gLog' = Append(gLog, [model |-> MODELS[gModel], attempt |-> gAttempt, ok |-> FALSE,
                              text |-> "", err |-> err])
    /\ IF is429(err) /\ RetryCeiling(gAttempt)
         THEN /\ gPc' = "wait"
              /\ gWaits' = Append(gWaits, RetryDelay(gAttempt))
              /\ UNCHANGED <<gModel, gAttempt, gRet>>
         ELSE IF is429(err)
           THEN \* break: the next model, or the end of the chain
                IF HasNextModel(gModel)
                  THEN /\ gPc' = "call"
                       /\ gModel' = gModel + 1
                       /\ gAttempt' = 1
                       /\ UNCHANGED <<gWaits, gRet>>
                  ELSE /\ gPc' = "exhausted"
                       /\ gRet' = ExhaustedError
                       /\ UNCHANGED <<gModel, gAttempt, gWaits>>
           ELSE \* throw error
                /\ gPc' = "thrown"
                /\ gRet' = err
                /\ UNCHANGED <<gModel, gAttempt, gWaits>>
    /\ UNCHANGED <<dvars, ivars, svars, cvars, ovars, wvars>>

\* the timer of the backoff fires: continue with attempt + 1
GemWake ==
    /\ gPc = "wait"
    /\ gPc' = "call"
    /\ gAttempt' = gAttempt + 1
    /\ UNCHANGED <<gModel, gLog, gWaits, gRet>>
    /\ UNCHANGED <<dvars, ivars, svars, cvars, ovars, wvars>>

GemNext ==
    \/ GemStart
    \/ \E text \in GenTexts : GemSuccess(text)
    \/ \E err \in GenErrors : GemFailure(err)
    \/ GemWake


(***************************************************************************)
(* Authorization State: githubOAuthAgent's tokenStore                      *)
(***************************************************************************)
Ids == {"alice", "bob"}
Tokens == {"tokA", "tokB"}

getAuthorizationUrl(userId) ==
    [base |-> "https://github.com/login/oauth/authorize",
     scope |-> "repo user read:org workflow", state |-> userId]

NoUrl == [base |-> "", scope |-> "", state |-> ""]

storeToken(store, userId, tokenData) == [store EXCEPT ![userId] = tokenData]

\* a call that leaves userId out reads the record of the default identity
getTokenDefault(store, userId) == store["alice"]

getToken(store, userId) == store[userId]

isConnected(store, userId) == store[userId] # Undefined

disconnectKeeps(store, userId) == store

\* tokenStore.delete(userId)
disconnect(store, userId) == [store EXCEPT ![userId] = Undefined]

NotConnectedError ==
    Msg("GitHub not connected. Please connect your GitHub account first.",
        {"not connected"})
TokenExpiredError ==
    Msg("GitHub token expired. Please reconnect your GitHub account.",
        {"token expired"})

\* What the source-control provider can answer to one request.
ApiOk == [status |-> 200, msg |-> Msg("", {})]
ApiErrors ==
    { [status |-> 401, msg |-> Msg("Request failed with status code 401", {})],
      [status |-> 404, msg |-> Msg("Request failed with status code 404", {})],
      [status |-> 500, msg |-> Msg("Request failed with status code 500", {})],
      [status |-> 0, msg |-> Msg("write ENOTCONN: socket is not connected",
                                 {"not connected"})] }
ApiResponses == {ApiOk} \cup ApiErrors
\* The public endpoints take no credential, so they do not answer 401.
PublicResponses == {r \in ApiResponses : r.status # 401}

githubAPIUnauthorizedKeep(store, userId, resp) ==
    IF resp.status = 200
      THEN [store |-> store, ok |-> TRUE, err |-> Msg("", {})]
      ELSE IF resp.status = 401
        THEN [store |-> store, ok |-> FALSE, err |-> TokenExpiredError]
        ELSE [store |-> store, ok |-> FALSE, err |-> resp.msg]

githubAPIDisconnectOnError(store, userId, resp) ==
    IF resp.status = 200
      THEN [store |-> store, ok |-> TRUE, err |-> Msg("", {})]
      ELSE [store |-> disconnect(store, userId), ok |-> FALSE,
            err |-> IF resp.status = 401 THEN TokenExpiredError ELSE resp.msg]

\* githubAPI after the request was sent: the response is returned, or the catch
\* block runs (401: disconnect and throw 'token expired'; else rethrow)
githubAPI(store, userId, resp) ==
    IF resp.status = 200
      THEN [store |-> store, ok |-> TRUE, err |-> Msg("", {})]
      ELSE IF resp.status = 401
        THEN [store |-> disconnect(store, userId), ok |-> FALSE,
              err |-> TokenExpiredError]
        ELSE [store |-> store, ok |-> FALSE, err |-> resp.msg]

(***************************************************************************)
(* The model's answer to the parse prompt, and JSON.parse of it            *)
(***************************************************************************)
MaxFiles == 3
FilePaths == <<"f1", "f2", "f3", "f4", "f5">>

PUBLIC_ACTIONS == {"list_user_repos", "get_user_profile"}
NoParamActions == {"get_profile", "list_repos"}
RepoActions == {"star_repo", "create_issue", "list_issues", "get_repo", "create_pr"}
KnownActions ==
    PUBLIC_ACTIONS \cup NoParamActions \cup RepoActions \cup {"create_repo", "push_project"}
\* the prompt also offers delete_repo; Undefined: the JSON has no "action"
ModelActions == KnownActions \cup {"delete_repo", Undefined}

\* The parameters the prompt says an action needs, of those that name what
\* the action is about (the other fields are handed to the provider as is).
RequiredParams(action) ==
    IF action \in PUBLIC_ACTIONS THEN {"username"}
    ELSE IF action \in RepoActions \cup {"push_project", "delete_repo"} THEN {"owner", "repo"}
    ELSE IF action = "create_repo" THEN {"name"}
    ELSE {}

NoParams == [present |-> FALSE, val |-> <<>>]
NoFiles == [isArray |-> FALSE, items |-> <<>>]
Files(n) == [isArray |-> TRUE, items |-> SubSeq(FilePaths, 1, n)]

Garbage == [json |-> "garbage", action |-> Undefined, params |-> NoParams, files |-> NoFiles]
JsonNull == [json |-> "null", action |-> Undefined, params |-> NoParams, files |-> NoFiles]
JsonScalar == [json |-> "scalar", action |-> Undefined, params |-> NoParams, files |-> NoFiles]
Obj(a, ps, fs) == [json |-> "object", action |-> a, params |-> ps, files |-> fs]

ParamChoices(a) ==
    {NoParams} \cup {[present |-> TRUE, val |-> f] : f \in [RequiredParams(a) -> {"", "x"}]}
FileChoices(a) ==
    IF a = "push_project" THEN {NoFiles} \cup {Files(n) : n \in 0..MaxFiles}
    ELSE {NoFiles}

GhBodies ==
    {Garbage, JsonNull, JsonScalar} \cup
    UNION { {Obj(a, ps, fs) : ps \in ParamChoices(a), fs \in FileChoices(a)} : a \in ModelActions }

\* a text is a sequence of pieces: code fences and one body
FenceOpen == [json |-> "fence-json", action |-> Undefined, params |-> NoParams, files |-> NoFiles]
FenceClose == [json |-> "fence", action |-> Undefined, params |-> NoParams, files |-> NoFiles]
IsFence(piece) == piece.json \in {"fence-json", "fence"}
GhTexts == {<<b>> : b \in GhBodies} \cup {<<FenceOpen, b, FenceClose>> : b \in GhBodies}

\* text.replace(/<fence>json\n?/g, '').replace(/<fence>\n?/g, '').trim()
StripFences(text) == SelectSeq(text, LAMBDA piece : ~IsFence(piece))

\* JSON.parse: [ok, value] (ok = FALSE: a SyntaxError is thrown)
JSONparse(cleaned) ==
    IF Len(cleaned) = 1 /\ cleaned[1].json # "garbage"
      THEN [ok |-> TRUE, value |-> cleaned[1]]
      ELSE [ok |-> FALSE, value |-> Garbage]

\* params[k] of the parsed intent ("" and undefined are falsy)
Param(intent, k) ==
    IF k \in DOMAIN intent.params.val THEN intent.params.val[k] ELSE Undefined
Falsy(v) == v = "" \/ v = Undefined

SyntaxErrorMsg == Msg("Unexpected token in JSON", {})
TypeErrorMsg == Msg("Cannot read properties of undefined", {})
AllFailedError == Msg("All Gemini models failed", {})

(***************************************************************************)
(* Action results (GitHubAgentResult, CryptoAgentResult)                   *)
(***************************************************************************)
Err(prefix, msg) == [prefix |-> prefix, msg |-> msg]
NoErr == Err("", Msg("", {}))
NoSummary == [succeeded |-> 0, total |-> 0]

\* fields: the keys of the object literal returned; promise: how the async
\* function settles
OkResult(action, summary, rawData) ==
    [promise |-> "resolved", fields |-> {"success", "action", "summary", "rawData"},
     success |-> TRUE, needsAuth |-> FALSE, action |-> action, error |-> NoErr,
     authUrl |-> NoUrl, summary |-> summary, rawData |-> rawData]
NeedsAuthResult(authUrl) ==
    [promise |-> "resolved", fields |-> {"success", "needsAuth", "authUrl", "message"},
     success |-> FALSE, needsAuth |-> TRUE, action |-> Undefined, error |-> NoErr,
     authUrl |-> authUrl, summary |-> NoSummary, rawData |-> <<>>]
FailedResult(error) ==
    [promise |-> "resolved", fields |-> {"success", "error"},
     success |-> FALSE, needsAuth |-> FALSE, action |-> Undefined, error |-> error,
     authUrl |-> NoUrl, summary |-> NoSummary, rawData |-> <<>>]
\* an error that leaves the async function: the promise rejects
Rejection(errMsg) ==
    [promise |-> "rejected", fields |-> {},
     success |-> FALSE, needsAuth |-> FALSE, action |-> Undefined, error |-> Err("", errMsg),
     authUrl |-> NoUrl, summary |-> NoSummary, rawData |-> <<>>]
NoResult ==
    [promise |-> "pending", fields |-> {},
     success |-> FALSE, needsAuth |-> FALSE, action |-> Undefined, error |-> NoErr,
     authUrl |-> NoUrl, summary |-> NoSummary, rawData |-> <<>>]

(***************************************************************************)
(* Repository dispatcher: runGitHubAgent                                   *)
(***************************************************************************)
MODEL_CHAIN == <<"gemini-2.5-flash", "gemini-2.5-flash-lite", "gemini-3-flash">>

UsernameRequiredRepos ==
    Msg("Username is required. Provide a GitHub username or profile URL.", {})
UsernameRequired == Msg("Username is required.", {})
UnknownAction == Msg("Unknown action. Try: list repos, create repo, star repo, create issue, etc.", {})

ParseCatchRethrow(errMsg) == Rejection(errMsg)

\* the catch of step 1: 'Failed to understand request'
ParseCatch(errMsg) == FailedResult(Err("Failed to understand request: ", errMsg))

\* the catch of step 3
ExecCatch(errMsg, userId) ==
    IF Includes(errMsg, "token expired") \/ Includes(errMsg, "not connected")
      THEN NeedsAuthResult(getAuthorizationUrl(userId))
      ELSE FailedResult(Err("", errMsg))

NeedsAuthCheckInverted(store, userId, action) ==
    action \in PUBLIC_ACTIONS /\ ~isConnected(store, userId)

\* step 2: !PUBLIC_ACTIONS.includes(intent.action) && !gh.isConnected(userId)
NeedsAuthCheck(store, userId, action) ==
    action \notin PUBLIC_ACTIONS /\ ~isConnected(store, userId)

PushResultAlwaysOk(path, ok) == [path |-> path, success |-> TRUE]

\* results.push({ path, success, ... }) of pushProject
PushResult(path, ok) == [path |-> path, success |-> ok]

\* `Pushed ${succeeded}/${result.length} files`
PushSummary(results) ==
    [succeeded |-> Cardinality({i \in DOMAIN results : results[i].success}),
     total |-> Len(results)]

\* What the code between two awaits decides: settle with a result, or await
\* a provider call (next); fileIdx, results, writes: the state of pushProject
Done(result, results, writes) ==
    [next |-> "settle", result |-> result, fileIdx |-> 0, results |-> results,
     writes |-> writes]
Await(next, fileIdx, results, writes) ==
    [next |-> next, result |-> NoResult, fileIdx |-> fileIdx, results |-> results,
     writes |-> writes]

\* githubAPI up to the request: without a token it throws 'not connected'
SendApi(store, userId, next) ==
    IF getToken(store, userId) = Undefined
      THEN Done(ExecCatch(NotConnectedError, userId), <<>>, <<>>)
      ELSE Await(next, 0, <<>>, <<>>)

RECURSIVE PushLoopNoLookup(_, _, _, _, _, _)
PushLoopNoLookup(store, userId, items, k, results, writes) ==
    IF k > Len(items)
      THEN Done(OkResult("push_project", PushSummary(results), results), results, writes)
    ELSE IF getToken(store, userId) = Undefined
      THEN PushLoopNoLookup(store, userId, items, k + 1,
                            Append(results, PushResult(items[k], FALSE)), Append(writes, FALSE))
    ELSE Await("write", k, results, writes)

RECURSIVE PushLoop(_, _, _, _, _, _)
\* pushProject's loop from file k until a request is in flight: without a
\* token both calls of createOrUpdateFile throw before any request
PushLoop(store, userId, items, k, results, writes) ==
    IF k > Len(items)
      THEN Done(OkResult("push_project", PushSummary(results), results), results, writes)
    ELSE IF getToken(store, userId) = Undefined
      THEN PushLoop(store, userId, items, k + 1,
                    Append(results, PushResult(items[k], FALSE)), Append(writes, FALSE))
    ELSE Await("lookup", k, results, writes)

ExecStartSendsUnknown(store, userId, intent) ==
    LET a == intent.action IN
    IF a \in NoParamActions THEN SendApi(store, userId, "api")
    ELSE IF a = "list_user_repos" THEN
        IF ~intent.params.present THEN Done(ExecCatch(TypeErrorMsg, userId), <<>>, <<>>)
        ELSE IF Falsy(Param(intent, "username"))
          THEN Done(FailedResult(Err("", UsernameRequiredRepos)), <<>>, <<>>)
        ELSE Await("public", 0, <<>>, <<>>)
    ELSE IF a = "get_user_profile" THEN
        IF ~intent.params.present THEN Done(ExecCatch(TypeErrorMsg, userId), <<>>, <<>>)
        ELSE IF Falsy(Param(intent, "username"))
          THEN Done(FailedResult(Err("", UsernameRequired)), <<>>, <<>>)
        ELSE Await("public", 0, <<>>, <<>>)
    ELSE IF a \in RepoActions \cup {"create_repo"} THEN
        IF ~intent.params.present THEN Done(ExecCatch(TypeErrorMsg, userId), <<>>, <<>>)
        ELSE SendApi(store, userId, "api")
    ELSE IF a = "push_project" THEN
        IF ~intent.params.present \/ ~intent.files.isArray
          THEN Done(ExecCatch(TypeErrorMsg, userId), <<>>, <<>>)
          ELSE PushLoop(store, userId, intent.files.items, 1, <<>>, <<>>)
    ELSE SendApi(store, userId, "api")

\* the switch of step 3, up to its first await
ExecStart(store, userId, intent) ==
    LET a == intent.action IN
    IF a \in NoParamActions THEN SendApi(store, userId, "api")
    ELSE IF a = "list_user_repos" THEN
        IF ~intent.params.present THEN Done(ExecCatch(TypeErrorMsg, userId), <<>>, <<>>)
        ELSE IF Falsy(Param(intent, "username"))
          THEN Done(FailedResult(Err("", UsernameRequiredRepos)), <<>>, <<>>)
        ELSE Await("public", 0, <<>>, <<>>)
    ELSE IF a = "get_user_profile" THEN
        IF ~intent.params.present THEN Done(ExecCatch(TypeErrorMsg, userId), <<>>, <<>>)
        ELSE IF Falsy(Param(intent, "username"))
          THEN Done(FailedResult(Err("", UsernameRequired)), <<>>, <<>>)
        ELSE Await("public", 0, <<>>, <<>>)
    ELSE IF a \in RepoActions \cup {"create_repo"} THEN
        IF ~intent.params.present THEN Done(ExecCatch(TypeErrorMsg, userId), <<>>, <<>>)
        ELSE SendApi(store, userId, "api")
    ELSE IF a = "push_project" THEN
        IF ~intent.params.present \/ ~intent.files.isArray
          THEN Done(ExecCatch(TypeErrorMsg, userId), <<>>, <<>>)
          ELSE PushLoop(store, userId, intent.files.items, 1, <<>>, <<>>)
    ELSE Done(FailedResult(Err("", UnknownAction)), <<>>, <<>>)

AfterTextAuthFirst(store, userId, text) ==
    LET parsed == JSONparse(StripFences(text)) IN
    IF ~isConnected(store, userId)
      THEN Done(NeedsAuthResult(getAuthorizationUrl(userId)), <<>>, <<>>)
    ELSE IF ~parsed.ok THEN Done(ParseCatch(SyntaxErrorMsg), <<>>, <<>>)
    ELSE IF parsed.value.json = "null" THEN Done(ParseCatch(TypeErrorMsg), <<>>, <<>>)
    ELSE ExecStart(store, userId, parsed.value)

\* steps 1 (after the text arrived), 2 and 3 (up to its first await)
AfterText(store, userId, text) ==
    LET parsed == JSONparse(StripFences(text)) IN
    IF ~parsed.ok THEN Done(ParseCatch(SyntaxErrorMsg), <<>>, <<>>)
    ELSE IF parsed.value.json = "null" THEN Done(ParseCatch(TypeErrorMsg), <<>>, <<>>)
    ELSE IF NeedsAuthCheck(store, userId, parsed.value.action)
      THEN Done(NeedsAuthResult(getAuthorizationUrl(userId)), <<>>, <<>>)
    ELSE ExecStart(store, userId, parsed.value)

\* the calls that can be in flight at once, and the one the single-call
\* specifications run
Procs == {"d1", "d2"}
Solo == {"d1"}

IdleD ==
    [agent |-> "none", userId |-> "", model |-> 1, parsed |-> FALSE, intent |-> Garbage,
     fileIdx |-> 0, results |-> <<>>, writes |-> <<>>,
     authCalls |-> 0, pubCalls |-> 0, cmcCalls |-> 0, genCalls |-> 0, got401 |-> FALSE,
     everCred |-> FALSE, credAtCheck |-> FALSE,
     provErr |-> Msg("", {}), reqs |-> <<>>, sentWith |-> Undefined]

DispIdle ==
    /\ tokenStore = [id \in Ids |-> Undefined]
    /\ lastMut = [id \in Ids |-> "none"]
    /\ pc = [p \in Procs |-> "idle"]
    /\ d = [p \in Procs |-> IdleD]
    /\ out = [p \in Procs |-> NoResult]

InFlight(p) == pc[p] \notin {"idle", "resolved", "rejected"}

\* storeToken(userId, tokenData), called by an OAuth callback
StoreToken(userId, tokenData) ==
    /\ tokenStore' = storeToken(tokenStore, userId, tokenData)
    /\ lastMut' = [lastMut EXCEPT ![userId] = "store"]
    /\ d' = [p \in Procs |->
               IF InFlight(p) /\ d[p].userId = userId
                 THEN [d[p] EXCEPT !.everCred = TRUE] ELSE d[p]]
    /\ UNCHANGED <<pc, out>>
    /\ UNCHANGED <<gvars, ivars, svars, cvars, ovars, wvars>>

\* disconnect(userId), called on a disconnect request
Disconnect(userId) ==
    /\ tokenStore' = disconnect(tokenStore, userId)
    /\ lastMut' = [lastMut EXCEPT ![userId] = "disconnect"]
    /\ UNCHANGED <<pc, d, out>>
    /\ UNCHANGED <<gvars, ivars, svars, cvars, ovars, wvars>>

IsRequest(at) == at \in {"api", "public", "lookup", "write"}

\* history: the request that was answered is done, the one of the plan is sent
Requests(at, fileIdx, plan) ==
    (IF IsRequest(at) THEN <<[ev |-> "done", kind |-> at, file |-> fileIdx]>> ELSE <<>>)
    \o (IF IsRequest(plan.next)
          THEN <<[ev |-> "send", kind |-> plan.next, file |-> plan.fileIdx]>> ELSE <<>>)

\* history: the token a request made now is sent with
SentWith(call, store) == [call EXCEPT !.sentWith = getToken(store, call.userId)]

\* the plan of the code that just ran becomes the call's new state
Apply(p, plan, dNew) ==
    /\ pc' = [pc EXCEPT ![p] = IF plan.next = "settle" THEN plan.result.promise ELSE plan.next]
    /\ out' = [out EXCEPT ![p] = plan.result]
    /\ d' = [d EXCEPT ![p] =
               [dNew EXCEPT !.fileIdx = plan.fileIdx, !.results = plan.results,
                            !.writes = plan.writes,
                            !.authCalls = @ + (IF plan.next \in {"api", "lookup", "write"} THEN 1 ELSE 0),
                            !.pubCalls = @ + (IF plan.next = "public" THEN 1 ELSE 0),
                            !.cmcCalls = @ + (IF plan.next = "cmc" THEN 1 ELSE 0),
                            !.genCalls = @ + (IF plan.next = "cnarrate" THEN 1 ELSE 0),
                            !.reqs = @ \o Requests(pc[p], d[p].fileIdx, plan),
                            !.sentWith = IF plan.next \in {"api", "lookup", "write"}
                                           THEN @ ELSE Undefined]]
    /\ UNCHANGED <<gvars, ivars, svars, cvars, ovars, wvars>>

\* runGitHubAgent(userPrompt, userId) is called: callGemini asks the first model
GhStart(p, userId) ==
    /\ pc[p] = "idle"
    /\ pc' = [pc EXCEPT ![p] = "gemini"]
    /\ d' = [d EXCEPT ![p] = [IdleD EXCEPT !.agent = "github", !.userId = userId,
                                           !.genCalls = 1,
                                           !.everCred = isConnected(tokenStore, userId)]]
    /\ UNCHANGED <<tokenStore, lastMut, out>>
    /\ UNCHANGED <<gvars, ivars, svars, cvars, ovars, wvars>>

\* callGemini: a model fails; continue with the next one, or throw
GhModelFails(p, err) ==
    /\ pc[p] = "gemini" /\ d[p].agent = "github"
    /\ IF d[p].model < Len(MODEL_CHAIN)
         THEN /\ d' = [d EXCEPT ![p].model = @ + 1, ![p].genCalls = @ + 1]
              /\ UNCHANGED <<pc, out>>
              /\ UNCHANGED <<gvars, ivars, svars, cvars, ovars, wvars>>
         ELSE Apply(p, Done(ParseCatch(AllFailedError), <<>>, <<>>), d[p])
    /\ UNCHANGED <<tokenStore, lastMut>>

\* callGemini returns a text: parse it, check authorization, start the action
GhModelAnswers(p, text) ==
    /\ pc[p] = "gemini" /\ d[p].agent = "github"
    /\ LET parsed == JSONparse(StripFences(text))
           isIntent == parsed.ok /\ parsed.value.json # "null"
       IN Apply(p, AfterText(tokenStore, d[p].userId, text),
                [d[p] EXCEPT !.parsed = isIntent,
                             !.intent = IF isIntent THEN parsed.value ELSE Garbage,
                             !.credAtCheck = isIntent /\ isConnected(tokenStore, d[p].userId),
                             !.sentWith = getToken(tokenStore, d[p].userId)])
    /\ UNCHANGED <<tokenStore, lastMut>>

\* history: a 401 was answered; the message of the latest other failure
Note401(p, resp, dOld) ==
    [dOld EXCEPT !.got401 = @ \/ resp.status = 401,
                 !.provErr = IF resp.status \notin {200, 401} THEN resp.msg ELSE @]
Mut401(userId, resp) ==
    IF resp.status = 401 THEN [lastMut EXCEPT ![userId] = "auto401"] ELSE lastMut

\* what the code of a call does with an answer, given the table it finds:
\* the table it leaves and the plan it goes on with
ApiStep(store, call, resp) ==
    LET r == githubAPI(store, call.userId, resp) IN
    [store |-> r.store,
     plan |-> IF r.ok
                THEN Done(OkResult(call.intent.action, NoSummary, <<>>), <<>>, <<>>)
                ELSE Done(ExecCatch(r.err, call.userId), <<>>, <<>>)]

LookupStepSendsAnyway(store, call, resp) ==
    LET r == githubAPI(store, call.userId, resp)
    IN [store |-> r.store,
        plan |-> Await("write", call.fileIdx, call.results, call.writes)]

LookupStep(store, call, resp) ==
    LET r == githubAPI(store, call.userId, resp)
        k == call.fileIdx
        items == call.intent.files.items
    IN [store |-> r.store,
        plan |-> IF getToken(r.store, call.userId) = Undefined
                   THEN PushLoop(r.store, call.userId, items, k + 1,
                                 Append(call.results, PushResult(items[k], FALSE)),
                                 Append(call.writes, FALSE))
                   ELSE Await("write", k, call.results, call.writes)]

WriteStep(store, call, resp) ==
    LET r == githubAPI(store, call.userId, resp)
        k == call.fileIdx
        items == call.intent.files.items
    IN [store |-> r.store,
        plan |-> PushLoop(r.store, call.userId, items, k + 1,
                          Append(call.results, PushResult(items[k], r.ok)),
                          Append(call.writes, resp.status = 200))]

\* the one request of an authenticated action is answered
GhApiResponse(p, resp) ==
    /\ pc[p] = "api"
    /\ LET s == ApiStep(tokenStore, d[p], resp) IN
         /\ tokenStore' = s.store
         /\ lastMut' = Mut401(d[p].userId, resp)
         /\ Apply(p, s.plan, SentWith(Note401(p, resp, d[p]), s.store))

\* getPublicUser / listPublicRepos is answered
GhPublicResponse(p, resp) ==
    /\ pc[p] = "public"
    /\ Apply(p, IF resp.status = 200
                  THEN Done(OkResult(d[p].intent.action, NoSummary, <<>>), <<>>, <<>>)
                  ELSE Done(ExecCatch(resp.msg, d[p].userId), <<>>, <<>>),
             Note401(p, resp, d[p]))
    /\ UNCHANGED <<tokenStore, lastMut>>

\* createOrUpdateFile: the existence lookup is answered (a failure is
\* swallowed), and the PUT is made
GhLookupResponse(p, resp) ==
    /\ pc[p] = "lookup"
    /\ LET s == LookupStep(tokenStore, d[p], resp) IN
         /\ tokenStore' = s.store
         /\ lastMut' = Mut401(d[p].userId, resp)
         /\ Apply(p, s.plan, SentWith(Note401(p, resp, d[p]), s.store))

\* createOrUpdateFile: the PUT is answered; pushProject records the file and
\* goes on with the next one
GhWriteResponse(p, resp) ==
    /\ pc[p] = "write"
    /\ LET s == WriteStep(tokenStore, d[p], resp) IN
         /\ tokenStore' = s.store
         /\ lastMut' = Mut401(d[p].userId, resp)
         /\ Apply(p, s.plan, SentWith(Note401(p, resp, d[p]), s.store))

\* the caller has taken the result; the slot is free for the next call
Return(p) ==
    /\ pc[p] \in {"resolved", "rejected"}
    /\ pc' = [pc EXCEPT ![p] = "idle"]
    /\ d' = [d EXCEPT ![p] = IdleD]
    /\ out' = [out EXCEPT ![p] = NoResult]
    /\ UNCHANGED <<tokenStore, lastMut>>
    /\ UNCHANGED <<gvars, ivars, svars, cvars, ovars, wvars>>

GhNext ==
    \/ \E p \in Solo, userId \in Ids : GhStart(p, userId)
    \/ \E p \in Solo, err \in GenErrors : GhModelFails(p, err)
    \/ \E p \in Solo, text \in GhTexts : GhModelAnswers(p, text)
    \/ \E p \in Solo, resp \in ApiResponses : GhApiResponse(p, resp)
    \/ \E p \in Solo, resp \in PublicResponses : GhPublicResponse(p, resp)
    \/ \E p \in Solo, resp \in ApiResponses : GhLookupResponse(p, resp)
    \/ \E p \in Solo, resp \in ApiResponses : GhWriteResponse(p, resp)

\* two calls in flight at once, over the answers that take each path of the
\* dispatcher once
PairTexts ==
    { <<Garbage>>,
      <<Obj("list_repos", NoParams, NoFiles)>>,
      <<Obj("get_user_profile", [present |-> TRUE, val |-> [f \in {"username"} |-> "x"]], NoFiles)>>,
      <<Obj("push_project",
            [present |-> TRUE, val |-> [f \in {"owner", "repo"} |-> "x"]], Files(1))>> }

\* the first call is alice's; the second is for either identity
PairIds(p) == IF p = "d1" THEN {"alice"} ELSE Ids
PairResponses == {r \in ApiResponses : r.status \in {200, 401, 500}}

PairNext ==
    \/ \E p \in Procs : \E userId \in PairIds(p) : GhStart(p, userId)
    \/ \E p \in Procs, err \in GenErrors : GhModelFails(p, err)
    \/ \E p \in Procs, text \in PairTexts : GhModelAnswers(p, text)
    \/ \E p \in Procs, resp \in PairResponses : GhApiResponse(p, resp)
    \/ \E p \in Procs, resp \in PairResponses \cap PublicResponses : GhPublicResponse(p, resp)
    \/ \E p \in Procs, resp \in PairResponses : GhLookupResponse(p, resp)
    \/ \E p \in Procs, resp \in PairResponses : GhWriteResponse(p, resp)
    \/ \E userId \in Ids, tokenData \in Tokens : StoreToken(userId, tokenData)
    \/ \E userId \in Ids : Disconnect(userId)
    \/ \E p \in Procs : Return(p)

EnvNext ==
    \/ \E userId \in Ids, tokenData \in Tokens : StoreToken(userId, tokenData)
    \/ \E userId \in Ids : Disconnect(userId)
    \/ \E p \in Solo : Return(p)

(***************************************************************************)
(* Market-data dispatcher: runCryptoAgent                                  *)
(***************************************************************************)
CryptoActions == {"get_price", "top_coins", "analyze", "market_overview"}
SymbolActions == {"get_price", "analyze"}

CryptoParamChoices(a) ==
    {NoParams, [present |-> TRUE, val |-> <<>>]} \cup
    (IF a \in SymbolActions
       THEN {[present |-> TRUE, val |-> f] : f \in [{"symbols"} -> {"", "x"}]}
       ELSE {})
CryptoBodies ==
    {Garbage, JsonNull, JsonScalar} \cup
    UNION { {Obj(a, ps, NoFiles) : ps \in CryptoParamChoices(a)} :
            a \in CryptoActions \cup {"buy_coin", Undefined} }
CryptoTexts ==
    {<<b>> : b \in CryptoBodies} \cup {<<FenceOpen, b, FenceClose>> : b \in CryptoBodies}

\* How a call of callGeminiWithRetry can settle: { success, text, model }, the
\* error of a failure that is no rate limit, or the exhausted-quota error
RetryResolves(texts) == {[ok |-> TRUE, text |-> t, err |-> Msg("", {})] : t \in texts}
RetryRejects ==
    {[ok |-> FALSE, text |-> <<>>, err |-> e] : e \in {e \in GenErrors : ~is429(e)} \cup {ExhaustedError}}

\* What the market-data provider can answer to one request.
CmcResponses ==
    { [status |-> 200, msg |-> Msg("", {})],
      [status |-> 429, msg |-> Msg("Request failed with status code 429", {})],
      [status |-> 0, msg |-> Msg("getaddrinfo ENOTFOUND pro-api.coinmarketcap.com", {})] }

\* the catch of step 1: 'Failed to parse intent'
CryptoParseCatch(errMsg) == FailedResult(Err("Failed to parse intent: ", errMsg))

\* the catch of step 2: 'CoinMarketCap API error'
CryptoExecCatch(errMsg) == FailedResult(Err("CoinMarketCap API error: ", errMsg))

\* the switch of step 2, up to its first await
CryptoExecStart(intent) ==
    LET a == intent.action IN
    IF a \in SymbolActions THEN
        \* intent.params.symbols, then symbols.toUpperCase() in getQuotes
        IF ~intent.params.present \/ Param(intent, "symbols") = Undefined
          THEN Done(CryptoExecCatch(TypeErrorMsg), <<>>, <<>>)
          ELSE Await("cmc", 0, <<>>, <<>>)
    ELSE IF a \in CryptoActions THEN
        \* intent.params.limit || 10
        IF ~intent.params.present
          THEN Done(CryptoExecCatch(TypeErrorMsg), <<>>, <<>>)
          ELSE Await("cmc", 0, <<>>, <<>>)
    ELSE Done(FailedResult(Err("", UnknownAction)), <<>>, <<>>)

\* step 1 after callGeminiWithRetry settled, and step 2 up to its first await
CryptoAfterParse(ret) ==
    LET parsed == JSONparse(StripFences(ret.text)) IN
    IF ~ret.ok THEN Done(CryptoParseCatch(ret.err), <<>>, <<>>)
    ELSE IF ~parsed.ok THEN Done(CryptoParseCatch(SyntaxErrorMsg), <<>>, <<>>)
    ELSE IF parsed.value.json = "null" THEN Done(CryptoParseCatch(TypeErrorMsg), <<>>, <<>>)
    ELSE CryptoExecStart(parsed.value)

\* runCryptoAgent(userPrompt) is called: callGeminiWithRetry(parsePrompt)
CrStart(p) ==
    /\ pc[p] = "idle"
    /\ pc' = [pc EXCEPT ![p] = "cparse"]
    /\ d' = [d EXCEPT ![p] = [IdleD EXCEPT !.agent = "crypto", !.genCalls = 1]]
    /\ UNCHANGED <<tokenStore, lastMut, out>>
    /\ UNCHANGED <<gvars, ivars, svars, cvars, ovars, wvars>>

\* callGeminiWithRetry(parsePrompt) settles
CrParseDone(p, ret) ==
    /\ pc[p] = "cparse"
    /\ LET parsed == JSONparse(StripFences(ret.text))
           isIntent == ret.ok /\ parsed.ok /\ parsed.value.json # "null"
       IN Apply(p, CryptoAfterParse(ret),
                [d[p] EXCEPT !.parsed = isIntent,
                             !.intent = IF isIntent THEN parsed.value ELSE Garbage])
    /\ UNCHANGED <<tokenStore, lastMut>>

\* getQuotes / getTopCoins is answered
CrCmcResponse(p, resp) ==
    /\ pc[p] = "cmc"
    /\ Apply(p, IF resp.status # 200 THEN Done(CryptoExecCatch(resp.msg), <<>>, <<>>)
                ELSE IF d[p].intent.action \in {"analyze", "market_overview"}
                  THEN Await("cnarrate", 0, <<>>, <<>>)
                ELSE Done(OkResult(d[p].intent.action, NoSummary, <<>>), <<>>, <<>>),
             d[p])
    /\ UNCHANGED <<tokenStore, lastMut>>

\* analyzeWithGemini: callGeminiWithRetry(prompt) settles
CrNarrateDone(p, ret) ==
    /\ pc[p] = "cnarrate"
    /\ Apply(p, IF ret.ok
                  THEN Done(OkResult(d[p].intent.action, NoSummary, <<>>), <<>>, <<>>)
                  ELSE Done(CryptoExecCatch(ret.err), <<>>, <<>>),
             d[p])
    /\ UNCHANGED <<tokenStore, lastMut>>

CrNext ==
    \/ \E p \in Solo : CrStart(p)
    \/ \E p \in Solo, ret \in RetryResolves(CryptoTexts) \cup RetryRejects : CrParseDone(p, ret)
    \/ \E p \in Solo, resp \in CmcResponses : CrCmcResponse(p, resp)
    \/ \E p \in Solo, ret \in RetryResolves({<<>>}) \cup RetryRejects : CrNarrateDone(p, ret)

(***************************************************************************)
(* Intent parser: parseUserIntent, and the CLI loop that calls it          *)
(*                                                                         *)
(* A text is a sequence of segments: the maximal runs of word characters   *)
(* in it and the separators between them, so that a \b of a regular        *)
(* expression is a segment boundary.                                       *)
(***************************************************************************)
MaxTokens == 2

Space == " "
Quote == "\""
\* the words of a user's request (a token holds no whitespace)
PromptTokens ==
    { <<"https", "://", "www", ".", "instagram", ".", "com", "/", "p", "/", "A", "/">>,
      <<Quote, "http", "://", "instagram", ".", "com", "/", "reel", "/", "star", Quote>>,
      <<"Star">>,
      <<"bitcoin">>,
      <<"restart">> }

RECURSIVE Join(_)
Join(ts) ==
    IF Len(ts) = 0 THEN <<>>
    ELSE IF Len(ts) = 1 THEN ts[1]
    ELSE ts[1] \o <<Space>> \o Join(Tail(ts))

\* what the user can type: up to MaxTokens tokens, with or without blanks around
TokenSeqs == UNION {[1..n -> PromptTokens] : n \in 0..MaxTokens}
\* the line read, with or without blanks around it
UserInput(p, padded) == IF padded THEN <<Space>> \o p \o <<Space>> ELSE p

\* String.prototype.trim
RECURSIVE TrimStart(_)
TrimStart(s) == IF Len(s) > 0 /\ s[1] = Space THEN TrimStart(Tail(s)) ELSE s
RECURSIVE TrimEnd(_)
TrimEnd(s) ==
    IF Len(s) > 0 /\ s[Len(s)] = Space THEN TrimEnd(SubSeq(s, 1, Len(s) - 1)) ELSE s
Trim(s) == TrimEnd(TrimStart(s))

\* the i flag: segments compare in lower case
Lower(seg) ==
    CASE seg = "Star" -> "star"
      [] seg = "A" -> "a"
      [] OTHER -> seg

At(s, i) == IF i \in DOMAIN s THEN s[i] ELSE ""

\* [^\s"'<>]
UrlStop == {Space, Quote, "'", "<", ">"}

\* instagram\.com\/[^\s"'<>] at segment j
HostAt(s, j) ==
    /\ Lower(At(s, j)) = "instagram" /\ At(s, j + 1) = "."
    /\ Lower(At(s, j + 2)) = "com" /\ At(s, j + 3) = "/"
    /\ (j + 4) \in DOMAIN s /\ s[j + 4] \notin UrlStop

\* https?:\/\/(?:www\.)?instagram\.com\/ matched from segment i: the segment
\* the host starts at, or 0
UrlHost(s, i) ==
    IF Lower(At(s, i)) \in {"http", "https"} /\ At(s, i + 1) = "://"
      THEN IF Lower(At(s, i + 2)) = "www" /\ At(s, i + 3) = "." /\ HostAt(s, i + 4)
             THEN i + 4
           ELSE IF HostAt(s, i + 2) THEN i + 2
           ELSE 0
      ELSE 0

\* [^\s"'<>]+ is greedy: the match ends before the next stop character
RECURSIVE UrlEnd(_, _)
UrlEnd(s, k) == IF (k + 1) \in DOMAIN s /\ s[k + 1] \notin UrlStop THEN UrlEnd(s, k + 1) ELSE k

\* the matches of the g-flagged expression, left to right, from segment i
RECURSIVE MatchAll(_, _)
MatchAll(s, i) ==
    IF i > Len(s) THEN <<>>
    ELSE LET j == UrlHost(s, i) IN
         IF j = 0 THEN MatchAll(s, i + 1)
         ELSE LET e == UrlEnd(s, j + 4) IN <<SubSeq(s, i, e)>> \o MatchAll(s, e + 1)

\* the alternatives of the keyword expressions: single words, and the two
\* words of pull\s*request and market\s*cap
KeywordWords(source) ==
    IF source = "githubKeywords"
      THEN {"github", "repo", "repository", "repos", "repositories", "issue", "issues",
            "pullrequest", "pr", "star", "fork", "commit", "push", "branch"}
      ELSE {"crypto", "bitcoin", "btc", "ethereum", "eth", "solana", "sol", "coin", "token",
            "price", "marketcap", "dogecoin", "doge", "xrp", "cardano", "ada"}
KeywordPhrase(source) ==
    IF source = "githubKeywords" THEN <<"pull", "request">> ELSE <<"market", "cap">>

RECURSIVE SkipSpace(_, _)
SkipSpace(s, k) == IF At(s, k) = Space THEN SkipSpace(s, k + 1) ELSE k

\* \b(word|...)\b matched at segment i: the segment the match ends at, or 0
KeywordEnd(source, s, i) ==
    IF Lower(s[i]) \in KeywordWords(source) THEN i
    ELSE IF /\ Lower(s[i]) = KeywordPhrase(source)[1]
            /\ Lower(At(s, SkipSpace(s, i + 1))) = KeywordPhrase(source)[2]
      THEN SkipSpace(s, i + 1)
    ELSE 0

\* the first segment at or after i where the expression matches, or 0
RECURSIVE Search(_, _, _)
Search(source, s, i) ==
    IF i > Len(s) THEN 0
    ELSE IF KeywordEnd(source, s, i) # 0 THEN i
    ELSE Search(source, s, i + 1)

\* RegExp.prototype.test: a g-flagged object searches from its lastIndex and
\* moves it; [rx, result]
test(rx, s) ==
    LET i == Search(rx.source, s, IF "g" \in rx.flags THEN rx.lastIndex + 1 ELSE 1) IN
    IF "g" \notin rx.flags THEN [rx |-> rx, result |-> i # 0]
    ELSE IF i = 0 THEN [rx |-> [rx EXCEPT !.lastIndex = 0], result |-> FALSE]
    ELSE [rx |-> [rx EXCEPT !.lastIndex = KeywordEnd(rx.source, s, i)], result |-> TRUE]

matchFirstOnly(s, rx) ==
    [rx |-> rx,
     result |-> IF MatchAll(s, 1) = <<>> THEN <<>> ELSE <<MatchAll(s, 1)[1]>>]

\* String.prototype.match with a g-flagged object: every match from the
\* start, lastIndex left at 0 (null, no match, becomes [] by || [])
match(s, rx) == [rx |-> [rx EXCEPT !.lastIndex = 0], result |-> MatchAll(s, 1)]

\* A regular-expression literal in the body of the catch block makes a new
\* object each time it is evaluated; prev is the object of the evaluation
\* before.
instaRegex(prev) == [source |-> "instaRegex", flags |-> {"g", "i"}, lastIndex |-> 0]

githubKeywordsHoisted(prev) ==
    [source |-> "githubKeywords", flags |-> {"g", "i"}, lastIndex |-> prev.lastIndex]

githubKeywords(prev) == [source |-> "githubKeywords", flags |-> {"i"}, lastIndex |-> 0]

cryptoKeywords(prev) == [source |-> "cryptoKeywords", flags |-> {"i"}, lastIndex |-> 0]

\* What the model can answer to the intent prompt: a JSON object whose
\* fields may be missing, empty or null, null, a scalar, or no JSON at all.
JsNull == "null"
NoValue == [def |-> FALSE, v |-> <<>>]
Value(v) == [def |-> TRUE, v |-> v]

\* the user's request as the model may reword it
Reformulated == <<"star", Space, "the", Space, "repo">>

IntentBody(json, platform, urls, action, userQuery) ==
    [json |-> json, platform |-> platform, urls |-> urls, action |-> action,
     userQuery |-> userQuery]
IntentGarbage == IntentBody("garbage", Undefined, NoValue, Undefined, NoValue)
IntentNull == IntentBody("null", Undefined, NoValue, Undefined, NoValue)
IntentScalar == IntentBody("scalar", Undefined, NoValue, Undefined, NoValue)
IntentFenceOpen == IntentBody("fence-json", Undefined, NoValue, Undefined, NoValue)
IntentFenceClose == IntentBody("fence", Undefined, NoValue, Undefined, NoValue)

IntentPlatforms == {"github", "unknown", "twitter", Undefined}
IntentActions == {"quick", JsNull}
IntentUrls ==
    {NoValue, Value(<< <<"https", "://", "instagram", ".", "com", "/", "p", "/", "B">> >>)}
IntentQueries == {Value(<<>>), Value(Reformulated)}

IntentBodies ==
    {IntentGarbage, IntentNull, IntentScalar} \cup
    {IntentBody("object", p, u, a, q) :
        p \in IntentPlatforms, u \in IntentUrls, a \in IntentActions, q \in IntentQueries}
IntentTexts ==
    {<<b>> : b \in IntentBodies} \cup
    {<<IntentFenceOpen, b, IntentFenceClose>> : b \in {IntentGarbage, IntentNull}} \cup
    {<<IntentFenceOpen, IntentBody("object", p, NoValue, JsNull, Value(<<>>)), IntentFenceClose>> :
        p \in IntentPlatforms}

\* ParsedIntent, as the async function settles with it. fields: the keys of
\* the object literal returned; path: the return statement it comes from
ParsedIntent(path, fields, success, platform, urls, action, userQuery, error) ==
    [promise |-> "resolved", path |-> path, fields |-> fields, success |-> success,
     platform |-> platform, urls |-> urls, action |-> action, userQuery |-> userQuery,
     error |-> error, fallback |-> "fallback" \in fields]
IntentRejection(errMsg) ==
    [promise |-> "rejected", path |-> "throw", fields |-> {}, success |-> FALSE,
     platform |-> Undefined, urls |-> <<>>, action |-> Undefined, userQuery |-> <<>>,
     error |-> errMsg, fallback |-> FALSE]
NoIntent ==
    [promise |-> "pending", path |-> "none", fields |-> {}, success |-> FALSE,
     platform |-> Undefined, urls |-> <<>>, action |-> Undefined, userQuery |-> <<>>,
     error |-> Msg("", {}), fallback |-> FALSE]

\* v || dflt
OrElse(v, dflt) == IF v \in {Undefined, JsNull, ""} THEN dflt ELSE v

\* the return of the try block
PrimaryIntent(parsed, userPrompt) ==
    ParsedIntent("primary", {"success", "platform", "urls", "action", "userQuery"}, TRUE,
        OrElse(parsed.platform, "unknown"),
        IF parsed.urls.def THEN parsed.urls.v ELSE <<>>,
        OrElse(parsed.action, "analyze"),
        IF parsed.userQuery.def /\ parsed.userQuery.v # <<>>
          THEN parsed.userQuery.v ELSE userPrompt,
        Msg("", {}))

FallbackFields == {"success", "platform", "urls", "action", "userQuery", "fallback"}

UnknownIntentThrows(errMsg, userPrompt) == IntentRejection(errMsg)

UnknownIntentAnalyze(errMsg, userPrompt) ==
    ParsedIntent("unknown", FallbackFields, TRUE, "unknown", <<>>, "analyze", userPrompt, errMsg)

\* the last return of the catch block
UnknownIntent(errMsg, userPrompt) ==
    ParsedIntent("unknown", {"success", "error", "platform", "urls", "action", "userQuery"},
        FALSE, "unknown", <<>>, JsNull, userPrompt, errMsg)

FallbackPlatformKeywordsFirst(nUrls, isGitHub, isCrypto) ==
    IF isCrypto THEN "crypto"
    ELSE IF isGitHub THEN "github"
    ELSE IF nUrls > 0 THEN "instagram"
    ELSE "unknown"

\* the order of the if statements of the catch block
FallbackPlatform(nUrls, isGitHub, isCrypto) ==
    IF nUrls > 0 THEN "instagram"
    ELSE IF isGitHub THEN "github"
    ELSE IF isCrypto THEN "crypto"
    ELSE "unknown"

\* the catch block: [intent, rx]
Fallback(userPrompt, errMsg, prev) ==
    LET m == match(userPrompt, instaRegex(prev.insta))
        g == test(githubKeywords(prev.github), userPrompt)
        c == test(cryptoKeywords(prev.crypto), userPrompt)
        instaUrls == m.result
        platform == FallbackPlatform(Len(instaUrls), g.result, c.result)
    IN  [rx |-> [insta |-> m.rx, github |-> g.rx, crypto |-> c.rx],
         intent |->
            CASE platform = "instagram" ->
                    ParsedIntent("fallback", FallbackFields, TRUE, "instagram", instaUrls,
                                 "analyze", userPrompt, Msg("", {}))
              [] platform = "github" ->
                    ParsedIntent("fallback", FallbackFields, TRUE, "github", <<>>,
                                 "github_action", userPrompt, Msg("", {}))
              [] platform = "crypto" ->
                    ParsedIntent("fallback", FallbackFields, TRUE, "crypto", <<>>,
                                 "crypto_action", userPrompt, Msg("", {}))
              [] OTHER -> UnknownIntent(errMsg, userPrompt)]

\* parseUserIntent(userPrompt), once callGeminiWithRetry settled with ret
parseUserIntent(userPrompt, ret, prev) ==
    LET parsed == JSONparse(StripFences(ret.text)) IN
    IF ~ret.ok THEN Fallback(userPrompt, ret.err, prev)
    ELSE IF ~parsed.ok THEN Fallback(userPrompt, SyntaxErrorMsg, prev)
    \* parsed.platform of null
    ELSE IF parsed.value.json = "null" THEN Fallback(userPrompt, TypeErrorMsg, prev)
    ELSE [rx |-> prev, intent |-> PrimaryIntent(parsed.value, userPrompt)]

NoRegExp == [source |-> "", flags |-> {}, lastIndex |-> 0]
NotSent == [route |-> "none", query |-> <<>>]
NoHist == [intent |-> NoIntent, calls |-> 0]

IntIdle ==
    /\ iPc = "prompt"
    /\ iIn = [words |-> <<>>, userInput |-> <<>>, userPrompt |-> <<>>]
    /\ iOut = NoIntent
    /\ iRx = [insta |-> NoRegExp, github |-> NoRegExp, crypto |-> NoRegExp]
    /\ iHist = NoHist
    /\ iSent = NotSent

\* main: a line is read (an empty line ends the loop) and
\* parseUserIntent(userInput.trim()) is called
CliRead(ts, padded) ==
    /\ iPc = "prompt"
    \* blanks around the line: for the lines of at most one word
    /\ padded => Len(ts) <= 1
    /\ LET userInput == UserInput(Join(ts), padded) IN
       /\ userInput # <<>>
       /\ iIn' = [words |-> ts, userInput |-> userInput, userPrompt |-> Trim(userInput)]
       /\ iHist' = IF Trim(userInput) = iIn.userPrompt THEN iHist ELSE NoHist
    /\ iPc' = "parse"
    /\ iOut' = NoIntent
    /\ iSent' = NotSent
    /\ UNCHANGED iRx
    /\ UNCHANGED <<gvars, dvars, svars, cvars, ovars, wvars>>

\* parseUserIntent continues after callGeminiWithRetry settled with ret
IntSettle(ret) ==
    LET r == parseUserIntent(iIn.userPrompt, ret, iRx) IN
    /\ iPc' = "returned"
    /\ iOut' = r.intent
    /\ iRx' = r.rx
    /\ iHist' = IF r.intent.path = "primary" THEN iHist
                ELSE IF iHist.calls = 0 THEN [intent |-> r.intent, calls |-> 1]
                ELSE [iHist EXCEPT !.calls = 2]
    /\ UNCHANGED <<iIn, iSent>>
    /\ UNCHANGED <<gvars, dvars, svars, cvars, ovars, wvars>>

\* callGeminiWithRetry resolved with { text }
IntResolves(text) ==
    /\ iPc = "parse"
    /\ IntSettle([ok |-> TRUE, text |-> text, err |-> Msg("", {})])

\* callGeminiWithRetry threw err
IntRejects(err) ==
    /\ iPc = "parse"
    /\ IntSettle([ok |-> FALSE, text |-> <<>>, err |-> err])

\* rawInput || intent.userQuery
QueryHanded(rawInput, intent) == IF rawInput # <<>> THEN rawInput ELSE intent.userQuery

\* main: the intent is routed (handleInstagram, handleGitHub, handleCrypto)
CliRoute ==
    /\ iPc = "returned"
    /\ iPc' = "prompt"
    /\ iSent' =
         IF iOut.promise = "rejected" THEN [route |-> "error", query |-> <<>>]
         ELSE IF ~iOut.success THEN [route |-> "retry", query |-> <<>>]
         ELSE IF iOut.platform = "instagram"
           THEN [route |-> "handleInstagram", query |-> iOut.userQuery]
         ELSE IF iOut.platform = "github"
           THEN [route |-> "handleGitHub", query |-> QueryHanded(iIn.userPrompt, iOut)]
         ELSE IF iOut.platform = "crypto"
           THEN [route |-> "handleCrypto", query |-> QueryHanded(iIn.userPrompt, iOut)]
         ELSE [route |-> "help", query |-> <<>>]
    /\ UNCHANGED <<iIn, iOut, iRx, iHist>>
    /\ UNCHANGED <<gvars, dvars, svars, cvars, ovars, wvars>>

IntNext ==
    \/ \E ts \in TokenSeqs, padded \in BOOLEAN : CliRead(ts, padded)
    \/ \E text \in IntentTexts : IntResolves(text)
    \/ \E ret \in RetryRejects : IntRejects(ret.err)
    \/ CliRoute

(***************************************************************************)
(* Instagram scraper: getInstagramData (Apify first, Cheerio as fallback)  *)
(***************************************************************************)
\* JavaScript values of mixed type, as the || chains see them
JUndef == [t |-> "undef", n |-> 0, s |-> ""]
JNaN == [t |-> "nan", n |-> 0, s |-> ""]
JNum(n) == [t |-> "num", n |-> n, s |-> ""]
JStr(s) == [t |-> "str", n |-> 0, s |-> s]
JBool(b) == [t |-> "bool", n |-> IF b THEN 1 ELSE 0, s |-> ""]

Truthy(v) ==
    CASE v.t = "num" -> v.n # 0
      [] v.t = "str" -> v.s # ""
      [] v.t = "bool" -> v.n = 1
      [] OTHER -> FALSE

\* a || b || ... : the first truthy operand, or the last one
RECURSIVE OrChain(_)
OrChain(vs) == IF Len(vs) = 1 \/ Truthy(Head(vs)) THEN Head(vs) ELSE OrChain(Tail(vs))

\* what the remote calls can throw: a message, and whether the error object
\* carries the HTTP response
ScErrors ==
    { [msg |-> "Actor run did not succeed", hasResponse |-> FALSE],
      [msg |-> "Request failed with status code 402", hasResponse |-> TRUE],
      [msg |-> "getaddrinfo ENOTFOUND", hasResponse |-> FALSE] }
NoDataError == [msg |-> "No data returned from Apify", hasResponse |-> FALSE]

PostUrls == {"https://www.instagram.com/p/abc/", "https://www.instagram.com/reel/xyz/"}

\* the first dataset item: the keys the actor may set, each absent or set
ItemKeys == {"likesCount", "likes", "videoViewCount", "videoPlayCount", "type", "videoUrl", "displayUrl"}
ItemValues(k) ==
    CASE k = "likesCount" -> {JUndef, JNum(0), JNum(12)}
      [] k = "likes" -> {JUndef, JNum(7)}
      [] k = "videoViewCount" -> {JUndef, JNum(40)}
      [] k = "videoPlayCount" -> {JUndef, JNum(0), JNum(9)}
      [] k = "type" -> {JUndef, JStr("Image"), JStr("Video")}
      [] k = "videoUrl" -> {JUndef, JStr("v.mp4")}
      [] k = "displayUrl" -> {JUndef, JStr("d.jpg")}
Items ==
    {[likesCount |-> a, likes |-> b, videoViewCount |-> c, videoPlayCount |-> e,
      type |-> f, videoUrl |-> g, displayUrl |-> h] :
        a \in ItemValues("likesCount"), b \in ItemValues("likes"),
        c \in ItemValues("videoViewCount"), e \in ItemValues("videoPlayCount"),
        f \in ItemValues("type"), g \in ItemValues("videoUrl"),
        h \in ItemValues("displayUrl")}
NoData == [k \in ItemKeys |-> JUndef]
Get(data, k) == IF k \in DOMAIN data THEN data[k] ELSE JUndef

\* listItems(): { items }, with items undefined, empty, or holding the post
ItemLists == {[def |-> FALSE, list |-> <<>>], [def |-> TRUE, list |-> <<>>]}
             \cup {[def |-> TRUE, list |-> <<data>>] : data \in Items}

\* the InstagramData object a scraper returns; fields: the keys it sets
ScResult(fields, success, vals) ==
    [promise |-> "resolved", fields |-> fields, success |-> success,
     error |-> vals.error, likes |-> vals.likes, comments |-> vals.comments, views |-> vals.views,
     photoUrl |-> vals.photoUrl, videoUrl |-> vals.videoUrl,
     thumbnailUrl |-> vals.thumbnailUrl, url |-> vals.url, type |-> vals.type,
     isVideo |-> vals.isVideo, note |-> vals.note, rawData |-> vals.rawData]

FailureKeys ==
    {"error", "likes", "comments", "views", "username", "photoUrl", "videoUrl",
     "thumbnailUrl", "isVideo", "success"}
FailureVals(err) ==
    [error |-> JStr(err.msg), likes |-> JNum(0), comments |-> JNum(0), views |-> JNum(0), photoUrl |-> JStr(""),
     videoUrl |-> JStr(""), thumbnailUrl |-> JStr(""), url |-> JUndef, type |-> JUndef,
     isVideo |-> JBool(FALSE), note |-> JUndef, rawData |-> NoData]

ScRejection(err) ==
    [ScResult({}, FALSE, FailureVals(err)) EXCEPT !.promise = "rejected"]
ScNoResult ==
    [ScResult({}, FALSE, FailureVals([msg |-> ""])) EXCEPT !.promise = "pending"]

\* getInstagramDataApify: the return of the try block
ApifyOk(data, postUrl) ==
    LET isVideo == OrChain(<< JBool(Get(data, "type") = JStr("Video")),
                              JBool(Get(data, "type") = JStr("Reel")),
                              JBool(Get(data, "__typename") = JStr("GraphVideo")),
                              Get(data, "videoUrl"), Get(data, "videoPlayCount") >>)
    IN ScResult({"likes", "comments", "views", "username", "caption", "photoUrl", "videoUrl",
                 "thumbnailUrl", "timestamp", "url", "type", "isVideo", "success", "rawData"},
                TRUE,
                [error |-> JUndef,
                 likes |-> OrChain(<<Get(data, "likesCount"), Get(data, "likes"), JNum(0)>>),
                 comments |-> OrChain(<<Get(data, "commentsCount"), Get(data, "comments"), JNum(0)>>),
                 views |-> OrChain(<<Get(data, "videoViewCount"), Get(data, "playCount"),
                                     Get(data, "viewCount"), Get(data, "plays"),
                                     Get(data, "videoPlayCount"), JNum(0)>>),
                 photoUrl |-> IF ~Truthy(isVideo)
                                THEN OrChain(<<Get(data, "displayUrl"), Get(data, "imageUrl"),
                                               Get(data, "thumbnailUrl"), JStr("")>>)
                                ELSE JStr(""),
                 videoUrl |-> IF Truthy(isVideo)
                                THEN OrChain(<<Get(data, "videoUrl"), Get(data, "videoPlayUrl"),
                                               JStr("")>>)
                                ELSE JStr(""),
                 thumbnailUrl |-> OrChain(<<Get(data, "thumbnailUrl"), Get(data, "displayUrl"),
                                            JStr("")>>),
                 url |-> OrChain(<<Get(data, "url"), JStr(postUrl)>>),
                 type |-> OrChain(<<Get(data, "type"), Get(data, "__typename"), JStr("unknown")>>),
                 isVideo |-> isVideo, note |-> JUndef, rawData |-> data])

\* the catch block of a scraper: console.error, and the failure object
ScraperCatch(err) == ScResult(FailureKeys, FALSE, FailureVals(err))

\* og:description as the words between blanks; a word is a sequence of
\* symbols: single characters where the patterns look at them, else the rest
CountChars == {"0", "1", "2", "3", "4", "5", "6", "7", "8", "9", ",", ".",
               "K", "M", "B", "k", "m", "b"}
DigitChars == <<"0", "1", "2", "3", "4", "5", "6", "7", "8", "9">>
IsDigit(c) == \E i \in DOMAIN DigitChars : DigitChars[i] = c
DigitValue(c) == (CHOOSE i \in DOMAIN DigitChars : DigitChars[i] = c) - 1

\* [0-9,.KMB]+ under the i flag, ending where the word ends
RECURSIVE CountSuffix(_)
CountSuffix(word) ==
    IF word = <<>> \/ word[Len(word)] \notin CountChars THEN <<>>
    ELSE Append(CountSuffix(SubSeq(word, 1, Len(word) - 1)), word[Len(word)])

RECURSIVE DigitsPrefix(_)
DigitsPrefix(str) ==
    IF str = <<>> \/ ~IsDigit(Head(str)) THEN <<>>
    ELSE <<Head(str)>> \o DigitsPrefix(Tail(str))

RECURSIVE ToInt(_)
ToInt(digits) ==
    IF digits = <<>> THEN 0
    ELSE 10 * ToInt(SubSeq(digits, 1, Len(digits) - 1)) + DigitValue(digits[Len(digits)])

\* parseInt(str): the digits it starts with, or NaN
parseInt(str) ==
    IF DigitsPrefix(str) = <<>> THEN JNaN ELSE JNum(ToInt(DigitsPrefix(str)))

\* parseFloat(str) * 1000, for up to three decimals; NaN without any digit
parseFloatTimes1000(str) ==
    LET whole == DigitsPrefix(str)
        rest == SubSeq(str, Len(whole) + 1, Len(str))
        decimals == IF rest # <<>> /\ Head(rest) = "." THEN DigitsPrefix(Tail(rest)) ELSE <<>>
        three == SubSeq(decimals \o <<"0", "0", "0">>, 1, 3)
    IN IF whole = <<>> /\ decimals = <<>> THEN JNaN
       ELSE JNum(1000 * ToInt(whole) + ToInt(three))

Times(v, k) == IF v.t = "num" THEN JNum(v.n * k) ELSE v

\* parseCount of getInstagramDataCheerio
parseCount(str) ==
    LET plain == SelectSeq(str, LAMBDA c : c # ",") IN
    IF str = <<>> THEN JNum(0)
    ELSE IF \E i \in DOMAIN plain : plain[i] = "K" THEN parseFloatTimes1000(plain)
    ELSE IF \E i \in DOMAIN plain : plain[i] = "M" THEN Times(parseFloatTimes1000(plain), 1000)
    ELSE OrChain(<<parseInt(plain), JNum(0)>>)

\* description.match(/([0-9,.KMB]+)\s+<unit>s?/i): the capture of the first
\* match, or <<>> with found = FALSE
CountMatch(description, units) ==
    LET hits == {i \in 1..(Len(description) - 1) :
                    /\ CountSuffix(description[i]) # <<>>
                    /\ description[i + 1] # <<>>
                    /\ description[i + 1][1] \in units}
    IN IF hits = {} THEN [found |-> FALSE, capture |-> <<>>]
       ELSE [found |-> TRUE,
             capture |-> CountSuffix(description[CHOOSE i \in hits : \A j \in hits : i <= j])]

LikeUnits == {"like", "likes", "Likes"}
CommentUnits == {"comment", "comments", "Comments"}

LikeCounts ==
    { <<"1", "2">>, <<"1", ",", "2", "3", "4">>, <<"1", ".", "5", "K">>, <<"2", "M">>,
      <<"3", "B">>, <<"K">> }
Descriptions ==
    {<<>>, << <<"photo">>, <<"by">>, <<"nasa">> >>}
    \cup { << c, <<"likes">>, <<",">>, <<"5", "6">>, <<"comments">>, <<"-">>, <<"nasa">>, <<"on">> >> :
             c \in LikeCounts }
    \cup { << <<"x">> \o c, <<"Likes">> >> : c \in LikeCounts }

\* the page axios.get returned: the content of its og: meta tags, each
\* absent (Undefined) or a string
Pages ==
    [description : Descriptions, hasDescription : BOOLEAN,
     ogImage : {JUndef, JStr("i.jpg")}, ogVideo : {JUndef, JStr(""), JStr("v.mp4")},
     ogType : {JUndef, JStr("video"), JStr("article")}]

FallbackNote == "Fallback method - views not available"

\* getInstagramDataCheerio: the return of the try block
CheerioOk(page) ==
    LET description == IF page.hasDescription THEN page.description ELSE <<>>
        ogImage == OrChain(<<page.ogImage, JStr("")>>)
        ogVideo == OrChain(<<page.ogVideo, JStr("")>>)
        ogType == OrChain(<<page.ogType, JStr("")>>)
        likesMatch == CountMatch(description, LikeUnits)
        commentsMatch == CountMatch(description, CommentUnits)
        isVideo == ogType = JStr("video") \/ ogVideo # JStr("")
    IN ScResult({"likes", "comments", "views", "username", "photoUrl", "videoUrl",
                 "thumbnailUrl", "isVideo", "success", "note"},
                TRUE,
                [error |-> JUndef,
                 likes |-> IF likesMatch.found THEN parseCount(likesMatch.capture) ELSE JNum(0),
                 comments |-> IF commentsMatch.found THEN parseCount(commentsMatch.capture)
                              ELSE JNum(0),
                 views |-> JNum(0),
                 photoUrl |-> IF ~isVideo THEN ogImage ELSE JStr(""),
                 videoUrl |-> IF isVideo THEN ogVideo ELSE JStr(""),
                 thumbnailUrl |-> ogImage, url |-> JUndef, type |-> JUndef,
                 isVideo |-> JBool(isVideo), note |-> JStr(FallbackNote), rawData |-> NoData])

\* getInstagramData after getInstagramDataApify returned
ScUseApifyNever(apifyResult) == FALSE

\* if (apifyResult.success) return apifyResult
ScUseApify(apifyResult) == apifyResult.success

ScIdle ==
    /\ sPc = "idle"
    /\ sUrl = ""
    /\ sApify = ScNoResult
    /\ sOut = ScNoResult
    /\ sLog = <<>>

\* getInstagramData(postUrl) is called: the actor is started
ScStart(postUrl) ==
    /\ sPc = "idle"
    /\ sPc' = "actor"
    /\ sUrl' = postUrl
    /\ sLog' = <<"actor">>
    /\ UNCHANGED <<sApify, sOut>>
    /\ UNCHANGED <<gvars, dvars, ivars, cvars, ovars, wvars>>

\* getInstagramDataApify has settled with apifyResult
ScAfterApify(apifyResult) ==
    /\ sApify' = apifyResult
    /\ IF apifyResult.promise = "rejected"
         THEN sPc' = "rejected" /\ sOut' = apifyResult /\ UNCHANGED sLog
         ELSE IF ScUseApify(apifyResult)
           THEN sPc' = "resolved" /\ sOut' = apifyResult /\ UNCHANGED sLog
           ELSE sPc' = "page" /\ sLog' = Append(sLog, "page") /\ UNCHANGED sOut
    /\ UNCHANGED sUrl
    /\ UNCHANGED <<gvars, dvars, ivars, cvars, ovars, wvars>>

\* client.actor(...).call(input) resolves: the dataset is listed
ScActorResolves ==
    /\ sPc = "actor"
    /\ sPc' = "items"
    /\ sLog' = Append(sLog, "items")
    /\ UNCHANGED <<sUrl, sApify, sOut>>
    /\ UNCHANGED <<gvars, dvars, ivars, cvars, ovars, wvars>>

ScActorRejects(err) ==
    /\ sPc = "actor"
    /\ ScAfterApify(ScraperCatch(err))

\* listItems() resolves
ScItemsResolve(items) ==
    /\ sPc = "items"
    /\ ScAfterApify(IF ~items.def \/ items.list = <<>>
                      THEN ScraperCatch(NoDataError)
                      ELSE ApifyOk(items.list[1], sUrl))

ScItemsReject(err) ==
    /\ sPc = "items"
    /\ ScAfterApify(ScraperCatch(err))

\* getInstagramDataCheerio has settled: getInstagramData returns its result
ScAfterCheerio(result) ==
    /\ sOut' = result
    /\ sPc' = result.promise
    /\ UNCHANGED <<sUrl, sApify, sLog>>
    /\ UNCHANGED <<gvars, dvars, ivars, cvars, ovars, wvars>>

\* axios.get(postUrl) resolves
ScPageResolves(page) ==
    /\ sPc = "page"
    /\ ScAfterCheerio(CheerioOk(page))

ScPageRejects(err) ==
    /\ sPc = "page"
    /\ ScAfterCheerio(ScraperCatch(err))

\* the caller has taken the result
ScReturn ==
    /\ sPc \in {"resolved", "rejected"}
    /\ sPc' = "idle"
    /\ sUrl' = ""
    /\ sApify' = ScNoResult
    /\ sOut' = ScNoResult
    /\ sLog' = <<>>
    /\ UNCHANGED <<gvars, dvars, ivars, cvars, ovars, wvars>>

ScNext ==
    \/ \E postUrl \in PostUrls : ScStart(postUrl)
    \/ ScActorResolves
    \/ \E err \in ScErrors : ScActorRejects(err)
    \/ \E items \in ItemLists : ScItemsResolve(items)
    \/ \E err \in ScErrors : ScItemsReject(err)
    \/ \E page \in Pages : ScPageResolves(page)
    \/ \E err \in ScErrors : ScPageRejects(err)
    \/ ScReturn

(***************************************************************************)
(* callGemini of the repository dispatcher, given the answers that         *)
(* callGeminiWithRetry was given                                           *)
(***************************************************************************)
GemSettled == gPc \in {"ok", "thrown", "exhausted"}

\* generateContent of a model answers the n-th call on it the same way,
\* whoever calls: callGemini's call is the first one on its model
SameAnswer(model, ok, text, err) ==
    \A i \in DOMAIN gLog :
        (gLog[i].model = MODEL_CHAIN[model] /\ gLog[i].attempt = 1) =>
            gLog[i].ok = ok /\ gLog[i].text = text /\ gLog[i].err = err

CgIdle ==
    /\ cPc = "idle"
    /\ cModel = 1
    /\ cLog = <<>>
    /\ cRet = Undefined

CgStart ==
    /\ cPc = "idle"
    /\ GemSettled
    /\ cPc' = "call"
    /\ UNCHANGED <<cModel, cLog, cRet>>
    /\ UNCHANGED <<gvars, dvars, ivars, svars, ovars, wvars>>

\* return result.response.text()
CgSuccess(text) ==
    /\ cPc = "call"
    /\ SameAnswer(cModel, TRUE, text, Msg("", {}))
    /\ cLog' = Append(cLog, [model |-> MODEL_CHAIN[cModel], attempt |-> 1, ok |-> TRUE,
                              text |-> text, err |-> Msg("", {})])
    /\ cPc' = "ok"
    /\ cRet' = text
    /\ UNCHANGED cModel
    /\ UNCHANGED <<gvars, dvars, ivars, svars, ovars, wvars>>

\* catch: log and continue; after the last model throw 'All Gemini models failed'
CgFailure(err) ==
    /\ cPc = "call"
    /\ SameAnswer(cModel, FALSE, "", err)
    /\ cLog' = Append(cLog, [model |-> MODEL_CHAIN[cModel], attempt |-> 1, ok |-> FALSE,
                              text |-> "", err |-> err])
    /\ IF cModel < Len(MODEL_CHAIN)
         THEN cModel' = cModel + 1 /\ UNCHANGED <<cPc, cRet>>
         ELSE cPc' = "failed" /\ cRet' = AllFailedError /\ UNCHANGED cModel
    /\ UNCHANGED <<gvars, dvars, ivars, svars, ovars, wvars>>

CgNext ==
    \/ CgStart
    \/ \E text \in GenTexts : CgSuccess(text)
    \/ \E err \in GenErrors : CgFailure(err)

(***************************************************************************)
(* OAuth callbacks (server and CLI) and the CLI's startOAuthFlow           *)
(***************************************************************************)
Variants == {"server", "cli1", "cli2"}
IsCli(variant) == variant \in {"cli1", "cli2"}
Cbs == {"c1", "c2"}
Logins == {"octocat", "hubot"}
OKeys == {"alice", "user_1", "default", "cli-user", "__pending__"} \cup Logins

\* the query of a callback request, and the session of the server
Codes == {Undefined, "", "code"}
CbStates == {Undefined, "alice"}
Sessions == {Undefined, "user_1"}

\* what the provider answers to the code exchange: a token, an OAuth error
\* in a 200 response (response.data.error), or no usable response
ExchangeResponses ==
    {[kind |-> "token", token |-> t] : t \in Tokens}
    \cup {[kind |-> "oauth_error", token |-> Undefined],
          [kind |-> "request_failed", token |-> Undefined]}

\* a record whose accessToken is undefined
NoAccessToken == "tokNone"

exchangeCodeForTokenUnchecked(response) ==
    IF response.kind = "request_failed" THEN [ok |-> FALSE, tokenData |-> Undefined]
    ELSE [ok |-> TRUE, tokenData |-> OrElse(response.token, NoAccessToken)]

\* exchangeCodeForToken: the token data, or the error rethrown by its catch
exchangeCodeForToken(response) ==
    IF response.kind = "token" THEN [ok |-> TRUE, tokenData |-> response.token]
    ELSE [ok |-> FALSE, tokenData |-> Undefined]

\* const userId = (state as string) || req.session.userId || 'default'
ServerUserId(state, session) == OrElse(state, OrElse(session, "default"))

\* handleGitHub: the identity the dispatcher is called for
CliUserId(flow) ==
    IF flow.variant = "cli1" THEN "cli-user" ELSE OrElse(flow.active, "__pending__")

\* the key the callback stores the token under first
FirstKey(variant, state, session) ==
    CASE variant = "server" -> ServerUserId(state, session)
      [] variant = "cli1" -> "cli-user"
      [] OTHER -> "__pending__"

NoFlow ==
    [variant |-> "none", promise |-> "none", server |-> "none", timer |-> "none",
     active |-> Undefined, accounts |-> <<>>, started |-> {}]
NoCb ==
    [pc |-> "idle", stale |-> FALSE, key |-> "", tokenData |-> Undefined,
     granted |-> FALSE, returned |-> FALSE, failed |-> FALSE]

OAuthIdle ==
    /\ oTable = [k \in OKeys |-> Undefined]
    /\ oFlow = NoFlow
    /\ oCb = [c \in Cbs |-> NoCb]
    /\ oLog = {}

\* The keys of the tokenStore Map in insertion order, which only the
\* multi-account CLI reads: a key set again keeps its place, a deleted key
\* leaves, a new key goes to the end.
KeyOrder(flow, table) ==
    IF flow.variant # "cli2" THEN flow
    ELSE LET kept == SelectSeq(flow.accounts, LAMBDA k : isConnected(table, k))
             new == {k \in OKeys : /\ isConnected(table, k)
                                   /\ \A i \in 1..Len(kept) : kept[i] # k}
         IN [flow EXCEPT !.accounts = IF new = {} THEN kept
                                      ELSE Append(kept, CHOOSE k \in new : TRUE)]

\* listConnectedUsers: Array.from(tokenStore.keys())
listConnectedUsers(flow) == flow.accounts

ResolveOverwrites(flow, stale, v) ==
    IF stale \/ ~IsCli(flow.variant) THEN flow ELSE [flow EXCEPT !.promise = v]

\* resolve(v) of the flow the handler belongs to: a settled promise stays
Resolve(flow, stale, v) ==
    IF stale \/ ~IsCli(flow.variant) \/ flow.promise # "pending" THEN flow
    ELSE [flow EXCEPT !.promise = v]

\* server.close() of the flow the handler belongs to
Close(flow, stale) ==
    IF stale \/ ~IsCli(flow.variant) THEN flow ELSE [flow EXCEPT !.server = "closed"]

CbInFlight(c) == oCb[c].pc \in {"exchange", "user", "rerun"}

\* history: a record was written by callback c
Wrote(c, key, cb) ==
    {[key |-> key, granted |-> cb.granted, returned |-> cb.returned]}

\* the server is started: app.listen
OServe ==
    /\ oFlow.variant = "none"
    /\ oFlow' = [NoFlow EXCEPT !.variant = "server", !.server = "listening"]
    /\ UNCHANGED <<oTable, oCb, oLog>>
    /\ UNCHANGED <<gvars, dvars, ivars, svars, cvars, wvars>>

\* GET /auth/github: the session gets a userId if it has none, and the
\* browser is sent to the provider with state = that userId
OAuthGithub(session) ==
    /\ oFlow.variant = "server"
    /\ LET userId == OrElse(session, "user_1")
           authUrl == getAuthorizationUrl(userId)
       IN oFlow' = [oFlow EXCEPT !.started = @ \cup {authUrl.state}]
    /\ UNCHANGED <<oTable, oCb, oLog>>
    /\ UNCHANGED <<gvars, dvars, ivars, svars, cvars, wvars>>

\* startOAuthFlow: a new promise, server and timer; the handlers still
\* running belong to the flow before
NewFlow(variant, table) ==
    /\ oFlow.variant \in {"none", variant}
    /\ oFlow.promise # "pending"
    /\ oFlow.server # "listening"
    /\ oFlow' = KeyOrder([oFlow EXCEPT !.variant = variant, !.promise = "pending",
                                       !.server = "listening", !.timer = "armed"], table)
    /\ oCb' = [c \in Cbs |-> IF CbInFlight(c) THEN [oCb[c] EXCEPT !.stale = TRUE] ELSE oCb[c]]
    /\ UNCHANGED oLog
    /\ UNCHANGED <<gvars, dvars, ivars, svars, cvars, wvars>>

\* handleGitHub: runGitHubAgent found no record and returned needsAuth
OStartGate(variant) ==
    /\ IsCli(variant)
    /\ ~isConnected(oTable, CliUserId([oFlow EXCEPT !.variant = variant]))
    /\ NewFlow(variant, oTable)
    /\ UNCHANGED oTable

\* handleGitHub: runGitHubAgent sent a request, and its catch returned needsAuth
OStartAfterError(variant, resp) ==
    /\ IsCli(variant)
    /\ LET userId == CliUserId([oFlow EXCEPT !.variant = variant])
           r == githubAPI(oTable, userId, resp)
       IN /\ isConnected(oTable, userId)
          /\ ~r.ok
          /\ ExecCatch(r.err, userId).needsAuth
          /\ oTable' = r.store
          /\ NewFlow(variant, r.store)

\* GET /auth/github/callback arrives: without a code the handler answers and
\* returns (the CLI resolves false); with one it calls exchangeCodeForToken
OArrive(c, code, state, session) ==
    /\ oFlow.server = "listening"
    /\ IsCli(oFlow.variant) => (state = Undefined /\ session = Undefined)
    /\ ~CbInFlight(c)
    /\ IF Falsy(code)
         THEN /\ oCb' = [oCb EXCEPT ![c] = [NoCb EXCEPT !.pc = "done"]]
              /\ oFlow' = Resolve(oFlow, FALSE, "false")
         ELSE /\ oCb' = [oCb EXCEPT ![c] = [NoCb EXCEPT !.pc = "exchange",
                                                       !.key = FirstKey(oFlow.variant, state, session)]]
              /\ UNCHANGED oFlow
    /\ UNCHANGED <<oTable, oLog>>
    /\ UNCHANGED <<gvars, dvars, ivars, svars, cvars, wvars>>

\* the catch of the handler: the error page; the CLI closes and resolves false
CallbackCatch(c, table) ==
    /\ oCb' = [oCb EXCEPT ![c].pc = "done", ![c].failed = TRUE]
    /\ oFlow' = KeyOrder(Resolve(Close(oFlow, oCb[c].stale), oCb[c].stale, "false"), table)

\* exchangeCodeForToken settles; on success storeToken, then getUser is called
OExchangeDone(c, response) ==
    /\ oCb[c].pc = "exchange"
    /\ LET x == exchangeCodeForToken(response) IN
         IF x.ok
           THEN LET cb == [oCb[c] EXCEPT !.pc = "user", !.tokenData = x.tokenData,
                                        !.granted = response.kind = "token",
                                        !.returned = TRUE]
                IN /\ oTable' = storeToken(oTable, cb.key, x.tokenData)
                   /\ oLog' = oLog \cup Wrote(c, cb.key, cb)
                   /\ oCb' = [oCb EXCEPT ![c] = cb]
                   /\ oFlow' = KeyOrder(oFlow, storeToken(oTable, cb.key, x.tokenData))
           ELSE /\ CallbackCatch(c, oTable)
                /\ UNCHANGED <<oTable, oLog>>
    /\ UNCHANGED <<gvars, dvars, ivars, svars, cvars, wvars>>

\* getUser settles. The server answers; the CLI closes its server and runs
\* the request again (cli2 first moves the record to the login).
OUserDone(c, resp, login) ==
    /\ oCb[c].pc = "user"
    /\ LET r == githubAPI(oTable, oCb[c].key, resp)
           variant == oFlow.variant
       IN IF ~r.ok
            THEN /\ oTable' = r.store
                 /\ CallbackCatch(c, r.store)
                 /\ UNCHANGED oLog
          ELSE IF variant = "server"
            THEN /\ oCb' = [oCb EXCEPT ![c].pc = "done"]
                 /\ UNCHANGED <<oTable, oFlow, oLog>>
          ELSE IF variant = "cli1"
            THEN /\ oCb' = [oCb EXCEPT ![c].pc = "rerun"]
                 /\ oFlow' = Close(oFlow, oCb[c].stale)
                 /\ UNCHANGED <<oTable, oLog>>
          ELSE LET table == disconnect(storeToken(oTable, login, oCb[c].tokenData),
                                       "__pending__")
               IN /\ oTable' = table
                  /\ oLog' = oLog \cup Wrote(c, login, oCb[c])
                  /\ oCb' = [oCb EXCEPT ![c].pc = "rerun", ![c].key = login]
                  /\ oFlow' = KeyOrder([Close(oFlow, oCb[c].stale) EXCEPT !.active = login],
                                       table)
    /\ UNCHANGED <<gvars, dvars, ivars, svars, cvars, wvars>>

\* runGitHubAgent of the request resolves (a 401 on its way removed the
\* record); the result is printed and the flow resolves true
ORerunDone(c, resp) ==
    /\ oCb[c].pc = "rerun"
    /\ LET table == IF isConnected(oTable, oCb[c].key)
                       THEN githubAPI(oTable, oCb[c].key, resp).store ELSE oTable
       IN /\ oTable' = table
          /\ oFlow' = KeyOrder(Resolve(oFlow, oCb[c].stale, "true"), table)
    /\ oCb' = [oCb EXCEPT ![c].pc = "done"]
    /\ UNCHANGED oLog
    /\ UNCHANGED <<gvars, dvars, ivars, svars, cvars, wvars>>

\* the setTimeout callback gives up: cli1 only if (!isConnected('cli-user'))
TimeoutGivesUp(flow, table) ==
    flow.variant = "cli2" \/ ~isConnected(table, "cli-user")

\* 120 s after startOAuthFlow
OTimer ==
    /\ oFlow.timer = "armed"
    /\ oFlow' = IF TimeoutGivesUp(oFlow, oTable)
                  THEN [Resolve(Close(oFlow, FALSE), FALSE, "false") EXCEPT !.timer = "fired"]
                  ELSE [oFlow EXCEPT !.timer = "fired"]
    /\ UNCHANGED <<oTable, oCb, oLog>>
    /\ UNCHANGED <<gvars, dvars, ivars, svars, cvars, wvars>>

\* the multi-account CLI waits at its prompt
AtPrompt == oFlow.variant = "cli2" /\ oFlow.promise # "pending"

\* the disconnect route of the server; the disconnect command of the CLI,
\* which then makes the first remaining account the active one
ODisconnect(userId) ==
    /\ isConnected(oTable, userId)
    /\ oFlow.variant = "server" \/ (AtPrompt /\ userId = oFlow.active)
    /\ oTable' = disconnect(oTable, userId)
    /\ oFlow' = IF oFlow.variant = "server" THEN oFlow
                ELSE LET remaining == listConnectedUsers(
                                          KeyOrder(oFlow, disconnect(oTable, userId)))
                     IN [KeyOrder(oFlow, disconnect(oTable, userId))
                            EXCEPT !.active = IF Len(remaining) > 0 THEN remaining[1]
                                              ELSE Undefined]
    /\ UNCHANGED <<oCb, oLog>>
    /\ UNCHANGED <<gvars, dvars, ivars, svars, cvars, wvars>>

\* switchAccount: the only account, or the one chosen by its number (an
\* invalid choice changes nothing)
OSwitch(choice) ==
    /\ AtPrompt
    /\ LET accounts == listConnectedUsers(oFlow)
       IN /\ choice \in 1..Len(accounts)
          /\ Len(accounts) = 1 => choice = 1
          /\ oFlow' = [oFlow EXCEPT !.active = accounts[choice]]
    /\ UNCHANGED <<oTable, oCb, oLog>>
    /\ UNCHANGED <<gvars, dvars, ivars, svars, cvars, wvars>>

\* the connect github command: startOAuthFlow without a dispatch
OConnect ==
    /\ NewFlow("cli2", oTable)
    /\ UNCHANGED oTable
    /\ UNCHANGED <<gvars, dvars, ivars, svars, cvars, wvars>>

RemoteDone(c) ==
    \/ \E response \in ExchangeResponses : OExchangeDone(c, response)
    \/ \E resp \in ApiResponses, login \in Logins : OUserDone(c, resp, login)
    \/ \E resp \in {r \in ApiResponses : r.status \in {200, 401}} : ORerunDone(c, resp)

OAuthNext ==
    \/ OServe
    \/ \E session \in Sessions : OAuthGithub(session)
    \/ \E variant \in Variants : OStartGate(variant)
    \/ \E variant \in Variants, resp \in ApiErrors : OStartAfterError(variant, resp)
    \/ \E c \in Cbs, code \in Codes, state \in CbStates, session \in Sessions :
           OArrive(c, code, state, session)
    \/ \E c \in Cbs : RemoteDone(c)
    \/ OTimer
    \/ \E userId \in OKeys : ODisconnect(userId)
    \/ \E choice \in 1..3 : OSwitch(choice)
    \/ OConnect

(***************************************************************************)
(* runAnalysisWorkflow: scraping, then the report or the quick summary     *)
(***************************************************************************)
Modes == {Undefined, "quick", "deep"}
UserQueries == {Undefined, "why did this go viral?"}

\* what getInstagramData can resolve with: a result of either scraper, or
\* the failure object of the fallback's catch
ScrapeOutcomes ==
    [postUrl \in PostUrls \cup {""} |->
        {ApifyOk(data, postUrl) : data \in Items}
        \cup {CheerioOk(page) : page \in Pages}
        \cup {ScraperCatch(err) : err \in ScErrors}]

\* what callGeminiWithRetry settles with: text and model, or the error thrown
GenOutcomes ==
    {[ok |-> TRUE, text |-> "textA", model |-> MODELS[i], err |-> Msg("", {})] :
         i \in {1, Len(MODELS)}}
    \cup {[ok |-> FALSE, text |-> "", model |-> "", err |-> e] :
              e \in {ExhaustedError, Msg("[500 Internal Server Error]", {})}}
NoGen == [ok |-> FALSE, text |-> "", model |-> "", err |-> Msg("", {})]

\* no scraped data yet
NoScraped == [promise |-> "pending", success |-> FALSE]

NoPrompt == [kind |-> "none", data |-> NoScraped, request |-> ""]

buildPromptKeepsRaw(data, userQuery) ==
    [kind |-> "full-report", data |-> data,
     request |-> IF Falsy(userQuery) THEN "" ELSE userQuery]

\* buildPrompt: a copy of the data without rawData goes into the report
\* prompt, followed by the user's request if there is one
buildPrompt(data, userQuery) ==
    LET cleanData == [data EXCEPT !.fields = @ \ {"rawData"}, !.rawData = NoData]
    IN [kind |-> "full-report", data |-> cleanData,
        request |-> IF Falsy(userQuery) THEN "" ELSE userQuery]

\* generateQuickSummary: its prompt
QuickPrompt(scrapedData) ==
    LET cleanData == [scrapedData EXCEPT !.fields = @ \ {"rawData"}, !.rawData = NoData]
    IN [kind |-> "quick-summary", data |-> cleanData, request |-> ""]

NoMetadata(kind) == [kind |-> kind, model |-> "", dataSource |-> JUndef]

\* generateReport, given what callGeminiWithRetry settled with
generateReport(scrapedData, gen) ==
    IF gen.ok
      THEN [success |-> TRUE, text |-> gen.text, error |-> "",
            metadata |-> [kind |-> "object", model |-> gen.model,
                          dataSource |-> OrChain(<<scrapedData.url, JStr("unknown")>>)]]
      ELSE [success |-> FALSE, text |-> "", error |-> gen.err.text,
            metadata |-> NoMetadata("undefined")]

\* generateQuickSummary, given what callGeminiWithRetry settled with
generateQuickSummary(scrapedData, gen) ==
    IF gen.ok
      THEN [success |-> TRUE, text |-> gen.text, error |-> "",
            metadata |-> NoMetadata("undefined")]
      ELSE [success |-> FALSE, text |-> "", error |-> gen.err.text,
            metadata |-> NoMetadata("undefined")]

NoMetrics == [likes |-> JUndef, comments |-> JUndef, views |-> JUndef, type |-> ""]
NoMedia == [photoUrl |-> JUndef, videoUrl |-> JUndef, thumbnailUrl |-> JUndef]

\* the WorkflowResult; fields: the keys it sets
WfResult(fields, success, step, error) ==
    [fields |-> fields, success |-> success, step |-> step, error |-> error,
     url |-> "", metrics |-> NoMetrics, media |-> NoMedia, report |-> "",
     metadata |-> NoMetadata("undefined"), scrapedData |-> NoScraped]
NoWfResult == WfResult({}, FALSE, "", "")

\* return { success: false, step: 'scraping', error: scrapedData.error }
ScrapingFailed(scrapedData) ==
    WfResult({"success", "step", "error"}, FALSE, "scraping", scrapedData.error.s)

\* return { success: false, step: 'analysis', scrapedData, error }
AnalysisFailed(scrapedData, analysisResult) ==
    [WfResult({"success", "step", "scrapedData", "error"}, FALSE, "analysis",
              analysisResult.error)
        EXCEPT !.scrapedData = scrapedData]

\* the final output
WfOutput(postUrl, scrapedData, analysisResult) ==
    [WfResult({"success", "url", "metrics", "media", "report", "metadata", "completedAt"},
              TRUE, "", "")
        EXCEPT !.url = postUrl,
               !.metrics = [likes |-> scrapedData.likes, comments |-> scrapedData.comments,
                            views |-> scrapedData.views,
                            type |-> IF Truthy(scrapedData.isVideo) THEN "Video/Reel"
                                     ELSE "Photo"],
               !.media = [photoUrl |-> scrapedData.photoUrl, videoUrl |-> scrapedData.videoUrl,
                          thumbnailUrl |-> scrapedData.thumbnailUrl],
               !.report = analysisResult.text,
               !.metadata = IF analysisResult.metadata.kind = "object"
                              THEN analysisResult.metadata ELSE NoMetadata("null")]

WfIdle ==
    /\ wPc = "idle"
    /\ wIn = [postUrl |-> "", mode |-> "", userQuery |-> ""]
    /\ wData = NoScraped
    /\ wPrompt = NoPrompt
    /\ wGen = NoGen
    /\ wOut = NoWfResult
    /\ wLog = <<>>

\* runAnalysisWorkflow(postUrl, options) is called: getInstagramData is awaited
WfStart(postUrl, mode, userQuery) ==
    /\ wPc = "idle"
    /\ wPc' = "scraping"
    /\ wIn' = [postUrl |-> postUrl,
               mode |-> IF mode = Undefined THEN "full" ELSE mode,
               userQuery |-> IF userQuery = Undefined THEN "" ELSE userQuery]
    /\ wLog' = <<"getInstagramData">>
    /\ UNCHANGED <<wData, wPrompt, wGen, wOut>>
    /\ UNCHANGED <<gvars, dvars, ivars, svars, cvars, ovars>>

\* getInstagramData resolved: a failure is returned; otherwise the prompt of
\* the mode is built and callGeminiWithRetry is awaited
WfScraped(scrapedData) ==
    /\ wPc = "scraping"
    /\ wData' = scrapedData
    /\ IF ~scrapedData.success
         THEN /\ wOut' = ScrapingFailed(scrapedData)
              /\ wPc' = "resolved"
              /\ UNCHANGED <<wPrompt, wLog>>
         ELSE /\ wPrompt' = IF wIn.mode = "quick" THEN QuickPrompt(scrapedData)
                            ELSE buildPrompt(scrapedData, wIn.userQuery)
              /\ wLog' = Append(wLog, "callGeminiWithRetry")
              /\ wPc' = "analysis"
              /\ UNCHANGED wOut
    /\ UNCHANGED <<wIn, wGen>>
    /\ UNCHANGED <<gvars, dvars, ivars, svars, cvars, ovars>>

\* callGeminiWithRetry settled: the analysis result, and the workflow's return
WfAnalysed(gen) ==
    /\ wPc = "analysis"
    /\ wGen' = gen
    /\ LET analysisResult == IF wIn.mode = "quick" THEN generateQuickSummary(wData, gen)
                             ELSE generateReport(wData, gen)
       IN wOut' = IF ~analysisResult.success THEN AnalysisFailed(wData, analysisResult)
                  ELSE WfOutput(wIn.postUrl, wData, analysisResult)
    /\ wPc' = "resolved"
    /\ UNCHANGED <<wIn, wData, wPrompt, wLog>>
    /\ UNCHANGED <<gvars, dvars, ivars, svars, cvars, ovars>>

\* the caller has taken the result
WfReturn ==
    /\ wPc = "resolved"
    /\ wPc' = "idle"
    /\ wIn' = [postUrl |-> "", mode |-> "", userQuery |-> ""]
    /\ wData' = NoScraped
    /\ wPrompt' = NoPrompt
    /\ wGen' = NoGen
    /\ wOut' = NoWfResult
    /\ wLog' = <<>>
    /\ UNCHANGED <<gvars, dvars, ivars, svars, cvars, ovars>>

WfNext ==
    \/ \E postUrl \in PostUrls, mode \in Modes, userQuery \in UserQueries :
           WfStart(postUrl, mode, userQuery)
    \/ \E scrapedData \in ScrapeOutcomes[wIn.postUrl] : WfScraped(scrapedData)
    \/ \E gen \in GenOutcomes : WfAnalysed(gen)
    \/ WfReturn

Init == GemIdle /\ DispIdle /\ IntIdle /\ ScIdle /\ CgIdle /\ OAuthIdle /\ WfIdle

Next == GhNext \/ CrNext \/ EnvNext

Spec == Init /\ [][Next]_vars



SpecPair == Init /\ [][PairNext]_vars

SpecScraper == Init /\ [][ScNext]_vars

SpecEquiv == Init /\ [][GemNext \/ CgNext]_vars

\* the timer fires, and every remote call of a handler completes
SpecOAuth ==
    /\ Init /\ [][OAuthNext]_vars
    /\ WF_vars(OTimer)
    /\ \A c \in Cbs : WF_vars(RemoteDone(c))

SpecWorkflow == Init /\ [][WfNext]_vars

SpecGem == Init /\ [][GemNext]_vars

SpecIntent == Init /\ [][IntNext]_vars


(***************************************************************************)
(* Properties                                                              *)
(***************************************************************************)
Settled(p) == pc[p] \in {"resolved", "rejected"}
GhSettled(p) == Settled(p) /\ d[p].agent = "github"
\* the three outcomes of an Action Result, by the fields of the object returned
IsOk(r) == r.success /\ ~r.needsAuth
IsNeedsAuthorization(r) == r.needsAuth /\ ~r.success
IsFailed(r) == ~r.success /\ ~r.needsAuth /\ "error" \in r.fields
ProviderCalls(p) == d[p].authCalls + d[p].pubCalls
MissingRequired(intent) ==
    \E k \in RequiredParams(intent.action) : Falsy(Param(intent, k))

\* C1: a dispatch of an action other than list_user_repos and get_user_profile,
\* for an identity that has no credential record during the call, returns
\* needsAuth = true and success = false with an authorization URL that is not
\* empty and whose state is the identity, and sends no provider request
\* (authenticated or public).
C1_GatedWithoutCredential ==
    \A p \in Procs :
        (GhSettled(p) /\ d[p].parsed /\ d[p].intent.action \notin PUBLIC_ACTIONS
            /\ ~d[p].everCred)
        => /\ out[p].promise = "resolved"
           /\ out[p].needsAuth /\ ~out[p].success
           /\ out[p].authUrl.base # "" /\ out[p].authUrl.state = d[p].userId
           /\ ProviderCalls(p) = 0

C1_Witness ==
    \E p \in Procs :
        /\ GhSettled(p) /\ d[p].parsed /\ d[p].intent.action = "star_repo"
        /\ d[p].intent.params.present /\ ~MissingRequired(d[p].intent)
        /\ ~d[p].everCred /\ out[p].needsAuth /\ out[p].authUrl.state = "bob"

\* C2 (as claimed): whenever a provider request of an authenticated action
\* (push_project's file requests included) was answered 401, the dispatch
\* returns needsAuth = true with an authorization URL, never success = true
\* and never a plain error, and the identity's record is deleted.
C2_UnauthorizedGivesNeedsAuth ==
    \A p \in Procs :
        (GhSettled(p) /\ d[p].got401)
        => /\ IsNeedsAuthorization(out[p])
           /\ out[p].authUrl.state = d[p].userId
           /\ (lastMut[d[p].userId] = "auto401" => ~isConnected(tokenStore, d[p].userId))

\* C3: once a provider request for an identity was answered 401, isConnected
\* of that identity is false as long as no storeToken (or disconnect) for it
\* follows.
C3_UnauthorizedDisconnects ==
    \A userId \in Ids : lastMut[userId] = "auto401" => ~isConnected(tokenStore, userId)

C3_Witness ==
    \E p \in Procs :
        /\ GhSettled(p) /\ d[p].got401 /\ d[p].everCred
        /\ lastMut[d[p].userId] = "auto401"
        /\ ~isConnected(tokenStore, d[p].userId)

\* C4 (as claimed): a dispatch of list_user_repos or get_user_profile (with
\* its username) for an identity without a credential record sends the public
\* request and returns ok or failed, never needsAuth, whatever the provider
\* answers.
C4_PublicNeverNeedsAuth ==
    \A p \in Procs :
        (GhSettled(p) /\ d[p].parsed /\ d[p].intent.action \in PUBLIC_ACTIONS
            /\ d[p].intent.params.present /\ ~MissingRequired(d[p].intent)
            /\ ~d[p].everCred)
        => /\ d[p].pubCalls = 1
           /\ IsOk(out[p]) \/ IsFailed(out[p])

\* C5: no dispatch call (runGitHubAgent, runCryptoAgent) rejects, whatever
\* the generative-text call and the providers answer, and a call that has
\* settled holds exactly one of ok, needsAuthorization and failed.
C5_AlwaysResolvesToOneOutcome ==
    \A p \in Procs :
        /\ pc[p] \in {"idle", "gemini", "api", "public", "lookup", "write",
                      "cparse", "cmc", "cnarrate", "resolved"}
        /\ out[p].promise # "rejected"
        /\ pc[p] = "resolved" =>
             /\ out[p].promise = "resolved"
             /\ Cardinality({k \in {"ok", "needsAuth", "failed"} :
                    \/ k = "ok" /\ IsOk(out[p])
                    \/ k = "needsAuth" /\ IsNeedsAuthorization(out[p])
                    \/ k = "failed" /\ IsFailed(out[p])}) = 1
             /\ (d[p].agent = "crypto" => ~out[p].needsAuth)

C5_Witness ==
    \E p \in Procs :
        /\ pc[p] = "resolved" /\ d[p].agent = "github"
        /\ ~d[p].parsed /\ d[p].model = 1
        /\ IsFailed(out[p]) /\ out[p].error.msg = TypeErrorMsg

\* C6 (as claimed): a dispatch whose action has required parameters and
\* whose intent lacks one of them (executed, i.e. a public action or a
\* credential at the authorization check) returns failed and sends no provider
\* request.
C6_MissingParameterFails ==
    \A p \in Procs :
        (GhSettled(p) /\ d[p].parsed /\ d[p].intent.action \in KnownActions
            /\ d[p].intent.params.present /\ MissingRequired(d[p].intent)
            /\ (d[p].intent.action \in PUBLIC_ACTIONS \/ d[p].credAtCheck))
        => IsFailed(out[p]) /\ ProviderCalls(p) = 0

\* C7: push_project over n files (a credential at the authorization check):
\* while it runs the results are those of the files done so far, and it
\* returns success with exactly n results in the order of the files, result i
\* having success = true iff the write of file i succeeded, and a summary of
\* (number of successful files)/n.
C7_PushResults ==
    \A p \in Procs :
        (d[p].agent = "github" /\ d[p].parsed /\ d[p].intent.action = "push_project"
            /\ d[p].intent.params.present /\ d[p].intent.files.isArray /\ d[p].credAtCheck)
        => LET items == d[p].intent.files.items
               res == d[p].results
           IN /\ Len(res) = Len(d[p].writes)
              /\ Len(res) <= Len(items)
              /\ \A i \in DOMAIN res :
                    res[i].path = items[i] /\ res[i].success = d[p].writes[i]
              /\ pc[p] \in {"lookup", "write"} => Len(res) = d[p].fileIdx - 1
              /\ Settled(p) =>
                    /\ IsOk(out[p]) /\ out[p].action = "push_project"
                    /\ out[p].rawData = res /\ Len(res) = Len(items)
                    /\ out[p].summary.total = Len(items)
                    /\ out[p].summary.succeeded =
                         Cardinality({i \in DOMAIN d[p].writes : d[p].writes[i]})

C7_Witness ==
    \E p \in Procs :
        /\ GhSettled(p) /\ d[p].intent.action = "push_project"
        /\ Len(out[p].rawData) = 3
        /\ out[p].rawData[1].success /\ ~out[p].rawData[2].success
        /\ out[p].rawData[3].success
        /\ d[p].writes = <<TRUE, FALSE, TRUE>>
        /\ out[p].summary = [succeeded |-> 2, total |-> 3]

\* the model and the attempt number of the i-th call when every call before
\* it was rate limited
ChainModel(i) == MODELS[((i - 1) \div MAX_RETRIES) + 1]
ChainAttempt(i) == ((i - 1) % MAX_RETRIES) + 1
\* a rate-limit signature: 429, "too many requests" or "quota" in the error
HasRateLimitSignature(err) == err.has \cap {"429", "Too Many Requests", "quota"} # {}
RateLimited(e) == ~e.ok /\ HasRateLimitSignature(e.err)

\* C8: when callGeminiWithRetry returns, it returns the text and the name of
\* the model that answered; every model before it in the chain was called
\* exactly 3 times, in chain order, each call failing with a rate-limit
\* signature; the answering call is the last call made.
C8_FirstSucceedingModel ==
    gPc = "ok" =>
        LET n == Len(gLog) IN
        /\ n >= 1 /\ gLog[n].ok
        /\ gRet.success /\ gRet.text = gLog[n].text /\ gRet.model = gLog[n].model
        /\ gLog[n].model = MODELS[gModel]
        /\ \A i \in 1..(n - 1) : RateLimited(gLog[i])
        /\ \A i \in 1..n : gLog[i].model = ChainModel(i) /\ gLog[i].attempt = ChainAttempt(i)
        /\ \A m \in 1..(gModel - 1) :
              Cardinality({i \in 1..n : gLog[i].model = MODELS[m]}) = MAX_RETRIES

C8_Witness ==
    /\ gPc = "ok" /\ gRet.model = MODELS[3] /\ Len(gLog) = 7
    /\ \A i \in 1..6 : RateLimited(gLog[i])

\* C9: a failure without a rate-limit signature, on any attempt of any model,
\* is the last call made: it is thrown to the caller as it is.
C9_OtherFailurePropagates ==
    \A i \in DOMAIN gLog :
        (~gLog[i].ok /\ ~HasRateLimitSignature(gLog[i].err))
        => i = Len(gLog) /\ gPc = "thrown" /\ gRet = gLog[i].err

C9_Witness ==
    /\ gPc = "thrown" /\ Len(gLog) = 5 /\ gLog[5].model = MODELS[2]
    /\ ~HasRateLimitSignature(gRet)

\* C10: callGeminiWithRetry never makes more than 3 x (chain length) calls;
\* when every call fails with a rate-limit signature it makes exactly 3 per
\* model, in chain order, and throws the exhausted-quota error.
C10_ExhaustsAfterNineAttempts ==
    /\ Len(gLog) <= MAX_RETRIES * Len(MODELS)
    /\ \A i \in DOMAIN gLog : gLog[i].model = ChainModel(i) /\ gLog[i].attempt = ChainAttempt(i)
    /\ gPc = "exhausted" <=>
          (Len(gLog) = MAX_RETRIES * Len(MODELS) /\ \A i \in DOMAIN gLog : RateLimited(gLog[i]))
    /\ gPc = "exhausted" => gRet = ExhaustedError

C10_Witness ==
    gPc = "exhausted" /\ Len(gLog) = 9 /\ gRet = ExhaustedError

\* the rate-limited calls of the log that were not the last attempt on their model
RetriedFailures == SelectSeq(gLog, LAMBDA e : RateLimited(e) /\ e.attempt < 3)
RateLimitedFailures == SelectSeq(gLog, RateLimited)

\* C11 (amended): the k-th rate-limited attempt on a model is followed by a
\* wait of 5000 ms x k and a retry of the same model when k is 1 or 2; the
\* third rate-limited attempt on a model is followed by no wait (the next
\* model is called at once, or the exhausted-quota error is thrown).
C11_WaitsBetweenRetries ==
    /\ Len(gWaits) = Len(RetriedFailures)
    /\ \A j \in DOMAIN gWaits : gWaits[j] = 5000 * RetriedFailures[j].attempt
    /\ gPc = "wait" =>
          /\ Len(gLog) >= 1
          /\ RateLimited(gLog[Len(gLog)])
          /\ gLog[Len(gLog)].attempt = gAttempt /\ gAttempt < 3
          /\ gWaits[Len(gWaits)] = 5000 * gAttempt
    /\ \A i \in 1..(Len(gLog) - 1) :
          IF RateLimited(gLog[i]) /\ gLog[i].attempt < 3
            THEN gLog[i + 1].model = gLog[i].model /\ gLog[i + 1].attempt = gLog[i].attempt + 1
            ELSE gLog[i + 1].model # gLog[i].model /\ gLog[i + 1].attempt = 1

C11_Witness ==
    /\ gPc = "call" /\ gModel = 2 /\ gAttempt = 1
    /\ Len(gLog) = 3 /\ \A i \in 1..3 : RateLimited(gLog[i])
    /\ gWaits = <<5000, 10000>>

\* C11 (as claimed): a wait of 5000 ms x k follows every rate-limited
\* attempt k, the last attempt on a model included.
C11_WaitAfterEveryRateLimit ==
    /\ Len(gWaits) = Len(RateLimitedFailures)
    /\ \A j \in DOMAIN gWaits : gWaits[j] = 5000 * RateLimitedFailures[j].attempt

(***************************************************************************)
(* Properties of parseUserIntent (SpecIntent)                              *)
(***************************************************************************)
IntReturned == iPc = "returned"
\* the catch block was entered: the generative call failed, or its text did not parse
TookCatch == IntReturned /\ iOut.path # "primary"

\* what the request holds, read off its words (not through the regular expressions)
InstaUrlsOfWord(w) ==
    IF \E k \in DOMAIN w : w[k] = "instagram"
      THEN <<SelectSeq(w, LAMBDA seg : seg # Quote)>> ELSE <<>>
RECURSIVE InstaUrlsOf(_)
InstaUrlsOf(ws) == IF ws = <<>> THEN <<>> ELSE InstaUrlsOfWord(Head(ws)) \o InstaUrlsOf(Tail(ws))
Mentions(ws, source) ==
    \E i \in DOMAIN ws : \E k \in DOMAIN ws[i] : Lower(ws[i][k]) \in KeywordWords(source)

\* C12: parseUserIntent never rejects: however the generative call settles
\* (a text that parses or not, the exhausted-quota error, another error), it
\* resolves to an object with the fields platform, urls, action and userQuery.
C12_ParseNeverRejects ==
    /\ iOut.promise # "rejected"
    /\ IntReturned =>
          /\ iOut.promise = "resolved"
          /\ {"platform", "urls", "action", "userQuery"} \subseteq iOut.fields

C12_Witness ==
    /\ IntReturned /\ iOut.promise = "resolved" /\ iOut.path = "unknown"
    /\ iOut.error = ExhaustedError

\* C13: when the catch block is entered and the request holds at least one
\* instagram.com URL, the intent is platform instagram, action analyze,
\* fallback true, and urls lists the URLs of the request in order.
C13_FallbackInstagramUrls ==
    (TookCatch /\ InstaUrlsOf(iIn.words) # <<>>) =>
        /\ iOut.platform = "instagram" /\ iOut.action = "analyze"
        /\ iOut.fallback /\ iOut.success
        /\ iOut.urls = InstaUrlsOf(iIn.words)

C13_Witness ==
    /\ TookCatch /\ iOut.platform = "instagram" /\ iOut.fallback
    /\ Len(iOut.urls) = 2 /\ iOut.urls[1] # iOut.urls[2]
    /\ Quote \in {iIn.words[1][k] : k \in DOMAIN iIn.words[1]}

\* C14: in the catch block an Instagram URL wins over any keyword, a GitHub
\* keyword wins over a crypto keyword, and one platform is returned.
C14_FallbackOrder ==
    TookCatch =>
        iOut.platform =
            IF InstaUrlsOf(iIn.words) # <<>> THEN "instagram"
            ELSE IF Mentions(iIn.words, "githubKeywords") THEN "github"
            ELSE IF Mentions(iIn.words, "cryptoKeywords") THEN "crypto"
            ELSE "unknown"

C14_Witness ==
    /\ TookCatch /\ iOut.platform = "github" /\ iOut.action = "github_action"
    /\ InstaUrlsOf(iIn.words) = <<>>
    /\ Mentions(iIn.words, "githubKeywords") /\ Mentions(iIn.words, "cryptoKeywords")


\* C15: every intent parseUserIntent returns, from the try block as from
\* the catch block, has action null when its platform is unknown.
C15_UnknownHasNullAction ==
    (IntReturned /\ iOut.platform = "unknown") => iOut.action = JsNull

\* C16: every intent parseUserIntent returns has a platform among instagram,
\* github, crypto and unknown, whatever platform the model's JSON names.
C16_PlatformInClosedSet ==
    IntReturned => iOut.platform \in {"instagram", "github", "crypto", "unknown"}

\* C17: userQuery of every intent returned is the user's text as handed to
\* parseUserIntent, and the query the CLI hands to runGitHubAgent is that text.
C17_UserQueryIsOriginalText ==
    /\ IntReturned => iOut.userQuery = iIn.userPrompt
    /\ iSent.route = "handleGitHub" => iSent.query = iIn.userPrompt

\* C18: with the generative path failing, a later call of parseUserIntent on
\* the same text returns the platform, urls, action, userQuery and fallback
\* flag the first call returned.
C18_FallbackIsRepeatable ==
    (TookCatch /\ iHist.calls >= 1) =>
        /\ iOut.platform = iHist.intent.platform
        /\ iOut.urls = iHist.intent.urls
        /\ iOut.action = iHist.intent.action
        /\ iOut.userQuery = iHist.intent.userQuery
        /\ iOut.fallback = iHist.intent.fallback

C18_Witness ==
    /\ TookCatch /\ iHist.calls = 2
    /\ iOut.platform = "github" /\ iHist.intent.platform = "github"
    /\ iRx.github.source = "githubKeywords"

\* C19: when the catch block is entered and the request holds no Instagram
\* URL and no GitHub or crypto keyword, parseUserIntent resolves to platform
\* unknown, action null, no urls and success false.
C19_FallbackUnknown ==
    ( /\ iPc = "returned" /\ iOut.path # "primary"
      /\ InstaUrlsOf(iIn.words) = <<>>
      /\ ~Mentions(iIn.words, "githubKeywords")
      /\ ~Mentions(iIn.words, "cryptoKeywords") ) =>
        /\ iOut.promise = "resolved"
        /\ iOut.platform = "unknown" /\ iOut.action = JsNull
        /\ iOut.urls = <<>> /\ ~iOut.success

C19_Witness ==
    /\ iPc = "returned" /\ iOut.path = "unknown" /\ iIn.words = << <<"restart">> >>
    /\ iOut.platform = "unknown" /\ ~iOut.success /\ iOut.error = SyntaxErrorMsg


\* C20: after any sequence of storeToken, disconnect and deletions on a 401,
\* isConnected(id) holds exactly when getToken(id) returns a record, which is
\* exactly when the latest mutation of id was a storeToken; a storeToken on a
\* connected identity leaves it with one record, the others untouched, and a
\* disconnect of an absent identity leaves the table as it was.
C20_StoreTracksLatestMutation ==
    /\ [](\A userId \in Ids :
            /\ isConnected(tokenStore, userId) <=> getToken(tokenStore, userId) \in Tokens
            /\ isConnected(tokenStore, userId) <=> lastMut[userId] = "store")
    /\ [][\A userId \in Ids :
            \* a record replaced by another: a storeToken of userId, nobody else touched
            /\ ( /\ isConnected(tokenStore, userId) /\ isConnected(tokenStore', userId)
                 /\ getToken(tokenStore', userId) # getToken(tokenStore, userId) ) =>
                  /\ lastMut'[userId] = "store"
                  /\ \A other \in Ids \ {userId} : tokenStore'[other] = tokenStore[other]
            \* a removal of an absent identity
            /\ ( /\ ~isConnected(tokenStore, userId)
                 /\ lastMut'[userId] # lastMut[userId]
                 /\ lastMut'[userId] \in {"disconnect", "auto401"} ) =>
                  tokenStore' = tokenStore]_vars

C20_Witness ==
    /\ lastMut["alice"] = "auto401" /\ ~isConnected(tokenStore, "alice")
    /\ getToken(tokenStore, "alice") = Undefined
    /\ lastMut["bob"] = "store" /\ getToken(tokenStore, "bob") = "tokB"


(***************************************************************************)
(* Further properties of the dispatchers (Spec)                            *)
(***************************************************************************)
NoMsg == Msg("", {})
Sends(p) == SelectSeq(d[p].reqs, LAMBDA e : e.ev = "send")

\* C23 (as claimed): a provider failure other than a 401 during a repository
\* action makes runGitHubAgent return failed with the provider's message,
\* never needsAuth, and no request is sent twice.
C23_ProviderFailureIsFailed ==
    \A p \in Procs :
        (GhSettled(p) /\ d[p].provErr # NoMsg) =>
            /\ IsFailed(out[p]) /\ ~out[p].needsAuth
            /\ out[p].error.msg = d[p].provErr
            /\ \A i, j \in DOMAIN Sends(p) : Sends(p)[i] = Sends(p)[j] => i = j

\* C24 (as claimed): when the generative call of runCryptoAgent fails or its
\* text does not parse, an action among get_price, top_coins, analyze and
\* market_overview is still chosen and the market-data provider is called.
C24_CryptoFallbackClassifies ==
    \A p \in Procs :
        (Settled(p) /\ d[p].agent = "crypto" /\ ~d[p].parsed) =>
            /\ d[p].cmcCalls >= 1
            /\ out[p].error.prefix # "Failed to parse intent: "

\* C27: a step of runGitHubAgent leaves the credential table as it is, or,
\* when the provider answered 401 to the request the call was waiting for,
\* deletes the caller's record; it never adds or replaces a record.
C27_DispatchOnlyDeletesOn401 ==
    [][\A p \in Procs :
         ( /\ d'[p].agent = "github"
           /\ pc'[p] # "idle"
           /\ pc'[p] # pc[p] \/ d'[p].genCalls # d[p].genCalls ) =>
             \/ tokenStore' = tokenStore
             \/ /\ tokenStore' = disconnect(tokenStore, d[p].userId)
                /\ isConnected(tokenStore, d[p].userId)
                /\ d'[p].got401
                /\ pc[p] \in {"api", "lookup", "write"}]_vars

C27_Witness ==
    \E p \in Procs :
        /\ GhSettled(p) /\ ~d[p].got401 /\ IsFailed(out[p]) /\ d[p].authCalls = 1
        /\ d[p].provErr # NoMsg
        /\ isConnected(tokenStore, d[p].userId) /\ lastMut[d[p].userId] = "store"

\* C28: when callGemini fails on every model, or its text is no JSON object,
\* runGitHubAgent returns failed with 'Failed to understand request', with or
\* without a credential record: no authorization URL, no provider request,
\* no deletion.
C28_ClassifiesBeforeAuthorization ==
    \A p \in Procs :
        (GhSettled(p) /\ ~d[p].parsed) =>
            /\ IsFailed(out[p])
            /\ out[p].error.prefix = "Failed to understand request: "
            /\ out[p].authUrl = NoUrl /\ "authUrl" \notin out[p].fields
            /\ ProviderCalls(p) = 0 /\ d[p].reqs = <<>>
            /\ ~d[p].got401

C28_Witness ==
    \E p \in Procs :
        /\ GhSettled(p) /\ ~d[p].parsed /\ d[p].genCalls = 1
        /\ ~isConnected(tokenStore, d[p].userId) /\ ~d[p].everCred
        /\ out[p].error.msg = SyntaxErrorMsg


Event(ev, kind, file) == [ev |-> ev, kind |-> kind, file |-> file]

\* C26: during pushProject at most one provider request is in flight: the
\* next event after a request is sent is its own answer; the write of a file
\* is sent right after the answer to its lookup; the requests of a file are
\* sent only after those of the files before it were answered.
C26_PushOneRequestAtATime ==
    \A p \in Procs :
        (d[p].agent = "github" /\ d[p].parsed /\ d[p].intent.action = "push_project") =>
            LET r == d[p].reqs IN
            /\ \A i \in DOMAIN r :
                 /\ r[i].kind \in {"lookup", "write"}
                 /\ r[i].ev = "send" =>
                      IF i = Len(r) THEN pc[p] = r[i].kind /\ d[p].fileIdx = r[i].file
                      ELSE r[i + 1] = Event("done", r[i].kind, r[i].file)
                 /\ (r[i].ev = "send" /\ r[i].kind = "write") =>
                      /\ i >= 3
                      /\ r[i - 1] = Event("done", "lookup", r[i].file)
                      /\ r[i - 2] = Event("send", "lookup", r[i].file)
                 /\ (r[i].ev = "send" /\ r[i].kind = "lookup") =>
                      \A j \in 1..(i - 1) : r[j].file < r[i].file
            /\ pc[p] \in {"lookup", "write"} <=> (r # <<>> /\ r[Len(r)].ev = "send")

C26_Witness ==
    \E p \in Procs :
        /\ pc[p] = "write" /\ d[p].fileIdx = 2
        /\ d[p].reqs = << Event("send", "lookup", 1), Event("done", "lookup", 1),
                          Event("send", "write", 1), Event("done", "write", 1),
                          Event("send", "lookup", 2), Event("done", "lookup", 2),
                          Event("send", "write", 2) >>


\* the tables that differ from store in the record of identity other only
Altered(store, other) == {[store EXCEPT ![other] = v] : v \in Tokens \cup {Undefined}}

\* two runs of the same code from tables that differ at other only: the same
\* plan, the same record of the caller, and other's record as it was found
SameStep(alt, step, base, userId, other) ==
    /\ step.plan = base.plan
    /\ step.store[userId] = base.store[userId]
    /\ step.store[other] = alt[other]

OutcomeIgnoresOthers(p) ==
    \A other \in Ids \ {d[p].userId} : \A alt \in Altered(tokenStore, other) :
        /\ pc[p] = "gemini" =>
             \A text \in PairTexts :
                 AfterText(alt, d[p].userId, text) = AfterText(tokenStore, d[p].userId, text)
        /\ pc[p] = "api" =>
             \A resp \in PairResponses :
                 SameStep(alt, ApiStep(alt, d[p], resp), ApiStep(tokenStore, d[p], resp),
                          d[p].userId, other)
        /\ pc[p] = "lookup" =>
             \A resp \in PairResponses :
                 SameStep(alt, LookupStep(alt, d[p], resp), LookupStep(tokenStore, d[p], resp),
                          d[p].userId, other)
        /\ pc[p] = "write" =>
             \A resp \in PairResponses :
                 SameStep(alt, WriteStep(alt, d[p], resp), WriteStep(tokenStore, d[p], resp),
                          d[p].userId, other)

RecordKept(id) == tokenStore'[id] = tokenStore[id] /\ lastMut'[id] = lastMut[id]

\* C21: with two dispatches and the store operations interleaved, a step of
\* a dispatch for one identity leaves the record of every other identity as
\* it was, a store operation changes the record of one identity at most, and
\* what a dispatch does next is the same whatever record another identity has.
C21_IdentitiesAreIsolated ==
    /\ [](\A p \in Procs : (d[p].agent = "github" /\ InFlight(p)) => OutcomeIgnoresOthers(p))
    /\ [][ /\ \A p \in Procs :
                (pc'[p] # pc[p] \/ d'[p].genCalls # d[p].genCalls) =>
                    \A other \in Ids \ {d[p].userId} : RecordKept(other)
           /\ \A a \in Ids, b \in Ids : a # b => RecordKept(a) \/ RecordKept(b) ]_vars

C21_Witness ==
    \E p \in Procs, q \in Procs :
        /\ d[p].agent = "github" /\ d[q].agent = "github"
        /\ d[p].userId # d[q].userId
        /\ d[p].got401 /\ lastMut[d[p].userId] = "auto401"
        /\ tokenStore[d[p].userId] = Undefined
        /\ pc[q] \in {"api", "lookup", "write"}
        /\ tokenStore[d[q].userId] # Undefined


FetchedPage == \E i \in DOMAIN sLog : sLog[i] = "page"

Attempts(log) == [i \in DOMAIN log |-> <<log[i].model, log[i].attempt>>]

\* C25: given the same answers, callGemini and callGeminiWithRetry call the
\* same models the same number of times and end the same way: the same text,
\* the provider's error, or the end of the chain.
C25_BothClientsAgree ==
    (GemSettled /\ cPc \in {"ok", "failed"}) =>
        /\ Attempts(cLog) = Attempts(gLog)
        /\ (cPc = "ok") = (gPc = "ok")
        /\ gPc = "ok" => cRet = gRet.text
        /\ gPc = "thrown" => cRet = gRet
        /\ gPc = "exhausted" => cPc = "failed"


\* C29: a record is written to the table only by a callback whose
\* exchangeCodeForToken returned the token the provider granted; a callback
\* without a code, or whose exchange failed, ends with the table as it was
\* (server, cli1 and cli2).
C29_RecordsFollowExchange ==
    /\ [](\A e \in oLog : e.granted /\ e.returned)
    /\ [][ /\ \A k \in OKeys :
                (oTable'[k] # oTable[k] /\ oTable'[k] # Undefined) =>
                    \E c \in Cbs :
                        /\ oCb[c].pc \in {"exchange", "user"}
                        /\ oCb'[c].granted /\ oCb'[c].returned
                        /\ oCb'[c].key = k /\ oTable'[k] = oCb'[c].tokenData
           /\ \A c \in Cbs :
                (oCb'[c] # oCb[c] /\ oCb'[c].pc = "done" /\ ~oCb'[c].returned) =>
                    oTable' = oTable ]_vars

C29_Witness ==
    /\ oLog # {}
    /\ \E k \in OKeys : oTable[k] # Undefined
    /\ \E c \in Cbs : oCb[c].pc = "done" /\ oCb[c].key # "" /\ ~oCb[c].returned
    /\ \E c \in Cbs : oCb[c] = [NoCb EXCEPT !.pc = "done"]

\* C30: once startOAuthFlow has returned its promise, the promise is
\* eventually resolved, given that the timer fires and that every remote call
\* of a callback handler completes.
C30_FlowEventuallyResolves ==
    (oFlow.promise = "pending") ~> (oFlow.promise \in {"true", "false"})


\* a handler of the current flow writes a record, sets the active identity
\* or starts the request again
FlowActs ==
    \E c \in Cbs :
        /\ ~oCb[c].stale /\ CbInFlight(c) /\ oCb'[c] # oCb[c]
        /\ \/ \E k \in OKeys : oTable'[k] # oTable[k] /\ oTable'[k] # Undefined
           \/ oFlow'.active # oFlow.active
           \/ oCb[c].pc # "rerun" /\ oCb'[c].pc = "rerun"

Answered(p) == pc[p] \in {"api", "lookup", "write"} /\ d'[p].reqs # d[p].reqs

\* C32: the answer to a request, a 401 included, leaves the record in place
\* when the record no longer holds the token the request was sent with (a
\* storeToken completed while the request was in flight).
C32_Late401KeepsNewToken ==
    [][\A p \in Procs :
         ( /\ Answered(p)
           /\ isConnected(tokenStore, d[p].userId)
           /\ getToken(tokenStore, d[p].userId) # d[p].sentWith ) =>
               tokenStore'[d[p].userId] = tokenStore[d[p].userId]]_vars


\* the handler of callback c ends in its catch in this step
EndsInCatch(c) == ~oCb[c].failed /\ oCb'[c].failed

\* C33: when a callback ends in its failure branch (the exchange fails, or
\* getUser fails after storeToken), no record is left under its identity.
C33_FailedCallbackLeavesNoRecord ==
    [][\A c \in Cbs : EndsInCatch(c) => ~isConnected(oTable', oCb[c].key)]_vars


\* C34: in the multi-account CLI, when no callback handler is running the
\* table holds no record under the temporary key, so a dispatch for
\* CliUserId with no active account finds no credential.
C34_NoPendingRecordAtRest ==
    (oFlow.variant = "cli2" /\ \A c \in Cbs : ~CbInFlight(c)) =>
        ~isConnected(oTable, "__pending__")


\* C35: at every prompt of the multi-account CLI the active account is
\* null or has a record in the table.
C35_ActiveAccountHasRecord ==
    AtPrompt => (oFlow.active = Undefined \/ isConnected(oTable, oFlow.active))


\* C36: in the HTTP server every record a callback writes is written under
\* the userId of a session that started an authorization via /auth/github:
\* never under another identity, never under the shared default identity.
C36_StoredUnderStartingSession ==
    oFlow.variant = "server" => \A w \in oLog : w.key \in oFlow.started


\* the model's answer parsed to an object whose action the switch of
\* runGitHubAgent has no case for
OutsideVocabulary(p) ==
    d[p].agent = "github" /\ d[p].parsed /\ d[p].intent.action \notin KnownActions

\* C37: for an action outside the dispatcher's vocabulary runGitHubAgent
\* makes no provider call; it returns failed with 'Unknown action' when the
\* identity had a record at the check, and needsAuth when it had none.
C37_UnknownActionNoProviderCall ==
    \A p \in Procs :
        OutsideVocabulary(p) =>
            /\ ProviderCalls(p) = 0 /\ d[p].reqs = <<>>
            /\ pc[p] \notin {"api", "lookup", "write", "public"}
            /\ GhSettled(p) =>
                 IF d[p].credAtCheck
                   THEN /\ IsFailed(out[p])
                        /\ out[p].error = Err("", UnknownAction)
                        /\ ~out[p].needsAuth
                   ELSE IsNeedsAuthorization(out[p])

C37_Witness ==
    \E p \in Procs :
        /\ OutsideVocabulary(p) /\ GhSettled(p)
        /\ d[p].intent.action = "delete_repo" /\ d[p].credAtCheck
        /\ out[p].error = Err("", UnknownAction)


AuthRequests == {"api", "lookup", "write"}

\* the code of call p runs in this step
StepOf(p) == pc'[p] # pc[p] \/ d'[p].reqs # d[p].reqs

\* C39: an authenticated request of a call is in flight only if the
\* identity had a record when githubAPI was called, and it carries that
\* record's token; a step of a call that finds no record sends no request
\* and leaves the table as it is.
C39_RequestNeedsRecord ==
    /\ [](\A p \in Procs : pc[p] \in AuthRequests => d[p].sentWith \in Tokens)
    /\ [][\A p \in Procs :
            (StepOf(p) /\ d'[p].agent = "github") =>
                /\ pc'[p] \in AuthRequests =>
                     /\ isConnected(tokenStore', d'[p].userId)
                     /\ d'[p].sentWith = getToken(tokenStore', d'[p].userId)
                /\ ~isConnected(tokenStore, d'[p].userId) =>
                     /\ tokenStore' = tokenStore
                     /\ pc'[p] \notin AuthRequests]_vars

\* a push of two files whose first lookup was answered 401: the record is
\* gone and no request was sent for the rest
C39_Witness ==
    \E p \in Procs :
        /\ GhSettled(p) /\ d[p].intent.action = "push_project" /\ d[p].got401
        /\ ~isConnected(tokenStore, d[p].userId)
        /\ Len(d[p].results) = 2
        /\ d[p].reqs = << Event("send", "lookup", 1), Event("done", "lookup", 1) >>


\* C38: runAnalysisWorkflow awaits getInstagramData first and the generative
\* call only after a successful scrape. A failed scrape returns success =
\* false with step 'scraping' and makes no generative call; a failed
\* analysis returns success = false with step 'analysis' and the scraped
\* data; mode 'quick' builds the quick-summary prompt and every other mode
\* the full report; the prompt holds the scraped data without rawData.
C38_ScrapeThenAnalyse ==
    /\ wLog \in {<<>>, <<"getInstagramData">>, <<"getInstagramData", "callGeminiWithRetry">>}
    /\ Len(wLog) = 2 <=> (wPc \in {"analysis", "resolved"} /\ wData.success)
    /\ (wPc = "resolved" /\ ~wData.success) =>
           /\ wOut = [NoWfResult EXCEPT !.fields = {"success", "step", "error"},
                                        !.step = "scraping", !.error = wData.error.s]
           /\ wPrompt = NoPrompt /\ wGen = NoGen
    /\ (wPc = "resolved" /\ wData.success /\ ~wGen.ok) =>
           /\ ~wOut.success /\ wOut.step = "analysis"
           /\ wOut.scrapedData = wData /\ "scrapedData" \in wOut.fields
           /\ wOut.error = wGen.err.text
    /\ (wPc = "resolved" /\ wData.success /\ wGen.ok) =>
           /\ wOut.success /\ "step" \notin wOut.fields /\ wOut.report = wGen.text
    /\ wPrompt # NoPrompt =>
           /\ wPrompt.kind = IF wIn.mode = "quick" THEN "quick-summary" ELSE "full-report"
           /\ "rawData" \notin wPrompt.data.fields /\ wPrompt.data.rawData = NoData
           /\ [wPrompt.data EXCEPT !.fields = wData.fields, !.rawData = wData.rawData] = wData

\* a full report was asked for a post the primary scraper returned with its
\* raw payload, and the generative call failed
C38_Witness ==
    /\ wPc = "resolved" /\ wIn.mode = "deep"
    /\ "rawData" \in wData.fields /\ wData.rawData # NoData
    /\ wPrompt.kind = "full-report" /\ wPrompt.request # ""
    /\ wOut.step = "analysis" /\ wOut.error = ExhaustedError.text

=============================================================================
